---- MODULE Spec2Model ----
(***************************************************************************)
(* Keysmith (src/src/boxdrive/_keysmith.py): a registry of per-key        *)
(* asyncio mutexes with a "lock everything" mode, run by tasks of a        *)
(* single-threaded cooperative event loop.  One step of the model is the   *)
(* code a task runs between two suspension points.                         *)
(***************************************************************************)
EXTENDS Integers, Sequences, FiniteSets, TLC

\* ----------------------------------------------------------------- bounds
NumTasks == 3
NumKeys == 2
MaxDepth == 2

Tasks == 1..NumTasks
Keys == 1..NumKeys

\* The lock objects.  master_lock is the gate created in __init__; the
\* per-key mutexes are created by _get_lock and are named by the numbers
\* 1..MaxLocks (at most one per frame and one per key can be referenced).
master_lock == 0
MaxLocks == NumKeys + NumTasks * MaxDepth
LockIds == 1..MaxLocks
AllLocks == {master_lock} \cup LockIds

\* The "key" of a lock_all() frame: the whole keyspace.
ALL == 0

VARIABLES
    locked,        \* asyncio.Lock._locked of every lock object
    waiters,       \* asyncio.Lock._waiters: the tasks queued on the lock, FIFO
    locks,         \* Keysmith.locks: the dict key -> mutex
    count_guards,  \* Keysmith.count_guards
    cv_waiters,    \* Keysmith.cv._waiters (the condition's own lock is only
                   \* ever held inside one step, so it is never contended)
    fut,           \* the future a suspended task awaits:
                   \* "none" | "pending" | "done" | "cancelled"
    must_cancel,   \* Task._must_cancel: cancel() arrived after the wake-up
    pc,            \* "run" | "gate" | "guard" | "cv": where the task's
                   \* innermost lock()/lock_all() call is suspended
    stack,         \* per task, the nested lock()/lock_all() calls, outermost
                   \* first: [key |-> k or ALL, lock |-> the lock awaited/held]
    err,           \* "ok", or the first assertion / RuntimeError that failed
    last           \* what the last step was: "raise" (a body raised),
                   \* "cancelled" (a CancelledError was delivered), "reset"
                   \* (_clear dropped a non-empty dict) or "other"

\* The list-protocol engine (src/src/boxdrive/stores/_utils.py): the
\* arguments of one filter_objects / filter_objects_v2 call and its result.
\* A string is the sequence of its code points; an ObjectInfo is its key,
\* the only field the engine reads.
VARIABLES
    objects,        \* the candidate list, in the order the store passes it
    prefix,         \* str | None
    delimiter,      \* str | None
    max_keys,       \* MaxKeys
    encoding_type,  \* str | None
    call,           \* the call made: its name and its cursor arguments
    result,         \* the ListObjectsInfo / ListObjectsV2Info it returned
    pages           \* the pages a marker walk has returned so far

\* The object stores (src/src/boxdrive/stores/inmemory.py and
\* src/src/boxdrive/stores/gitlab/store.py) and the S3 facade's delete
\* handlers (src/src/boxdrive/s3.py).
VARIABLES
    store,          \* S3.store: which ObjectStore the application was built
                    \* with, "InMemoryStore" or "GitlabStore"
    buckets,        \* InMemoryStore._buckets: the dict name -> Bucket, as the
                    \* sequence of its entries in insertion order
    files,          \* the branch of the remote repository GitlabStore talks
                    \* to: the content of every file, by <<bucket, key>>
    now,            \* the wall clock datetime.now() reads
    ret,            \* the last call of a store or facade operation: its
                    \* name, its arguments and what it returned or raised
    put_ret,        \* per <<bucket, key>>: what the last put_object returned
                    \* and was given, until the object is written again
    job             \* per task, the GitlabStore operation it is running

kvars == <<locked, waiters, locks, count_guards, cv_waiters, fut, must_cancel,
           pc, stack, err, last>>

svars == <<store, buckets, files, now, ret, put_ret, job>>

lvars == <<objects, prefix, delimiter, max_keys, encoding_type, call, result,
           pages>>

vars == <<locked, waiters, locks, count_guards, cv_waiters, fut, must_cancel,
          pc, stack, err, last, objects, prefix, delimiter, max_keys,
          encoding_type, call, result, pages, store, buckets, files, now,
          ret, put_ret, job>>

\* ------------------------------------------------------ state as a record
St ==
    [locked |-> locked, waiters |-> waiters, locks |-> locks,
     count_guards |-> count_guards, cv_waiters |-> cv_waiters, fut |-> fut,
     must_cancel |-> must_cancel, pc |-> pc, stack |-> stack, err |-> err,
     reset |-> FALSE]

\* Do(v, F) is F(v), with v evaluated once.
Do(v, F(_)) == CHOOSE r \in {F(x) : x \in {v}} : TRUE

Fail(s, what) ==
    IF s.err = "ok" THEN [s EXCEPT !.err = what] ELSE s

Check(s, cond, what) ==
    IF cond THEN s ELSE Fail(s, what)

Top(s, t) == s.stack[t][Len(s.stack[t])]

Push(s, t, frame) == [s EXCEPT !.stack[t] = Append(@, frame)]

Pop(s, t) == [s EXCEPT !.stack[t] = SubSeq(@, 1, Len(@) - 1)]

SetTopLock(s, t, l) ==
    [s EXCEPT !.stack[t] = [@ EXCEPT ![Len(@)] = [@ EXCEPT !.lock = l]]]

Without(q, t) == SelectSeq(q, LAMBDA x : x # t)

\* The task goes on running: it awaits nothing.
Running(s, t) ==
    [s EXCEPT !.pc[t] = "run", !.fut[t] = "none", !.must_cancel[t] = FALSE]

\* ------------------------------------------------------------ asyncio.Lock
\* acquire()'s fast path: unlocked and no waiter that is not cancelled.
CanAcquireNow(s, l) ==
    /\ ~s.locked[l]
    /\ \A i \in 1..Len(s.waiters[l]) : s.fut[s.waiters[l][i]] = "cancelled"

Take(s, l) == [s EXCEPT !.locked[l] = TRUE]

\* acquire()'s slow path: queue a new future and suspend at `where`.
Park(s, l, t, where) ==
    [s EXCEPT !.waiters[l] = Append(@, t), !.fut[t] = "pending",
              !.pc[t] = where]

\* _wake_up_first(): set the result of the first waiter's future unless it
\* is done already (woken or cancelled).
WakeUpFirst(s0, l) ==
    Do(s0, LAMBDA s :
        IF s.waiters[l] = <<>> THEN s
        ELSE LET t == Head(s.waiters[l])
             IN  IF s.fut[t] = "pending" THEN [s EXCEPT !.fut[t] = "done"]
                 ELSE s)

\* release()
Release(s0, l) ==
    Do(s0, LAMBDA s :
        IF s.locked[l]
        THEN WakeUpFirst([s EXCEPT !.locked[l] = FALSE], l)
        ELSE Fail(s, "RuntimeError: Lock is not acquired"))

\* acquire() resumed after `await fut` returned: leave the queue, lock.
Woken(s, l, t) ==
    Take([s EXCEPT !.waiters[l] = Without(@, t)], l)

\* acquire() resumed with CancelledError: leave the queue and, when the lock
\* is free, pass the wake-up on.
Unpark(s, l, t) ==
    Do([s EXCEPT !.waiters[l] = Without(@, t)], LAMBDA s1 :
        IF ~s1.locked[l] THEN WakeUpFirst(s1, l) ELSE s1)

\* ------------------------------------------------------- asyncio.Condition
\* notify(): wake the first waiter whose future is not done.
RECURSIVE NotifyFrom(_, _)
NotifyFrom(s, i) ==
    IF i > Len(s.cv_waiters) THEN s
    ELSE IF s.fut[s.cv_waiters[i]] = "pending"
         THEN [s EXCEPT !.fut[s.cv_waiters[i]] = "done"]
         ELSE NotifyFrom(s, i + 1)

Notify(s0) == Do(s0, LAMBDA s : NotifyFrom(s, 1))

\* ----------------------------------------------------------------- Keysmith
Referenced(s) ==
    {s.locks[k] : k \in DOMAIN s.locks}
        \cup UNION {{s.stack[t][i].lock : i \in 1..Len(s.stack[t])} : t \in Tasks}

EmptyDict == [k \in {} |-> master_lock]

\* Keysmith._num_of_locked: raises AssertionError unless the gate is
\* locked, else returns the number of mutexes of the dict that are locked.
num_of_locked(s) ==
    IF ~s.locked[master_lock] THEN [raised |-> "AssertionError"]
    ELSE [raised |-> "none",
          value |-> Cardinality({k \in DOMAIN s.locks :
                                    s.locked[s.locks[k]]})]

\* What _num_of_locked returns when no mutex of the dict is locked.
NoneLocked == [raised |-> "none", value |-> 0]

predicate(s) == s.count_guards = 0

clear(s0) ==
    Do(s0, LAMBDA s :
        LET s1 == Check(s, s.locked[master_lock],
                        "_clear: master_lock.locked()")
            s2 == Check(Check(s1, num_of_locked(s).raised = "none",
                              "_num_of_locked: master_lock.locked()"),
                        num_of_locked(s) = NoneLocked,
                        "_clear: _num_of_locked() == 0")
            s3 == Check(s2, s.count_guards = 0, "_clear: count_guards == 0")
        IN  [s3 EXCEPT !.locks = EmptyDict, !.reset = (s.locks # EmptyDict)])

\* The name of the mutex _get_lock creates: any name that no dict entry and
\* no frame refers to; the key's own number when that is free.
NewLock(s, key) ==
    IF key \notin Referenced(s) THEN key
    ELSE CHOOSE l \in LockIds :
             /\ l \notin Referenced(s)
             /\ \A m \in LockIds : m \notin Referenced(s) => l <= m

\* A _get_lock that never looks the key up and always stores a new mutex.
get_lock_always_new(s0, key) ==
    Do(s0, LAMBDA s :
        Do(NewLock(s, key), LAMBDA l :
            [s EXCEPT !.locks = [k \in DOMAIN s.locks \cup {key} |->
                                    IF k = key THEN l ELSE s.locks[k]],
                      !.locked[l] = FALSE,
                      !.waiters[l] = <<>>]))

\* A _get_lock that keeps one mutex for the whole dict: a new key is mapped
\* to the mutex of a key that is already there.
get_lock_shared(s0, key) ==
    Do(s0, LAMBDA s :
        IF key \in DOMAIN s.locks \/ s.locks = EmptyDict
        THEN get_lock_always_new(s, key)
        ELSE Do(s.locks[CHOOSE k \in DOMAIN s.locks : TRUE], LAMBDA l :
                 [s EXCEPT !.locks = [k \in DOMAIN s.locks \cup {key} |->
                                         IF k = key THEN l ELSE s.locks[k]]]))

get_lock(s0, key) ==
    Do(s0, LAMBDA s :
        Do(Check(s, s.locked[master_lock], "_get_lock: master_lock.locked()"),
           LAMBDA s1 :
            IF key \in DOMAIN s1.locks THEN s1
            ELSE Do(NewLock(s1, key), LAMBDA l :
                     [s1 EXCEPT !.locks = [k \in DOMAIN s1.locks \cup {key} |->
                                              IF k = key THEN l
                                              ELSE s1.locks[k]],
                                !.locked[l] = FALSE,
                                !.waiters[l] = <<>>])))

\* A finally block that decrements the count and never notifies.
lock_finally_no_notify(s) ==
    Do([s EXCEPT !.count_guards = @ - 1], LAMBDA s1 :
        Check(s1, s1.count_guards >= 0, "lock: count_guards >= 0"))

\* lock(), lines 28-32: the finally block.
lock_finally(s) ==
    Do([s EXCEPT !.count_guards = @ - 1], LAMBDA s1 :
        Do(Check(s1, s1.count_guards >= 0, "lock: count_guards >= 0"),
           LAMBDA s2 : IF s2.count_guards = 0 THEN Notify(s2) ELSE s2))

\* A guard that a task already inside lock(key) may take again.
lock_guard_reentrant(s0, t, guard) ==
    Do(s0, LAMBDA s :
        IF \/ CanAcquireNow(s, guard)
           \/ \E i \in 1..(Len(s.stack[t]) - 1) : s.stack[t][i].lock = guard
        THEN Running(Take(s, guard), t)
        ELSE Park(s, guard, t, "guard"))

\* lock(), line 25: `async with guard` entered from the top of the try.
lock_guard(s0, t, guard) ==
    Do(s0, LAMBDA s :
        IF CanAcquireNow(s, guard)
        THEN Running(Take(s, guard), t)
        ELSE Park(s, guard, t, "guard"))

\* A lock() that counts first and resets when the count is 1.
lock_admit_count_first(s0, t) ==
    Do(s0, LAMBDA s :
        Do([s EXCEPT !.count_guards = @ + 1], LAMBDA s1 :
            Do(get_lock(IF s1.count_guards = 1 THEN clear(s1) ELSE s1,
                        Top(s, t).key),
               LAMBDA s3 :
                Do(s3.locks[Top(s, t).key], LAMBDA guard :
                    lock_guard(SetTopLock(Release(s3, master_lock), t, guard),
                               t, guard)))))

\* A lock() that never resets the dict.
lock_admit_no_reset(s0, t) ==
    Do(s0, LAMBDA s :
        Do(get_lock([s EXCEPT !.count_guards = @ + 1], Top(s, t).key),
           LAMBDA s3 :
            Do(s3.locks[Top(s, t).key], LAMBDA guard :
                lock_guard(SetTopLock(Release(s3, master_lock), t, guard),
                           t, guard))))

\* A lock() that awaits the per-key mutex inside `async with master_lock`.
lock_admit_holding_gate(s0, t) ==
    Do(s0, LAMBDA s :
        Do(IF s.count_guards = 0 THEN clear(s) ELSE s, LAMBDA s1 :
            Do(get_lock([s1 EXCEPT !.count_guards = @ + 1], Top(s, t).key),
               LAMBDA s3 :
                Do(s3.locks[Top(s, t).key], LAMBDA guard :
                    lock_guard(SetTopLock(s3, t, guard), t, guard)))))

\* A lock() that resets the dict at every admission, whatever the count.
lock_admit_reset_always(s0, t) ==
    Do(s0, LAMBDA s :
        Do([s EXCEPT !.locks = EmptyDict, !.reset = (s.locks # EmptyDict)],
           LAMBDA s1 :
            Do(get_lock([s1 EXCEPT !.count_guards = @ + 1], Top(s, t).key),
               LAMBDA s3 :
                Do(s3.locks[Top(s, t).key], LAMBDA guard :
                    lock_guard(SetTopLock(Release(s3, master_lock), t, guard),
                               t, guard)))))

\* lock(), lines 18-25, run with the gate held: admission, release of the
\* gate, then the attempt on the per-key mutex.
lock_admit(s0, t) ==
    Do(s0, LAMBDA s :
        Do(IF s.count_guards = 0 THEN clear(s) ELSE s, LAMBDA s1 :
            Do(get_lock([s1 EXCEPT !.count_guards = @ + 1], Top(s, t).key),
               LAMBDA s3 :
                Do(s3.locks[Top(s, t).key], LAMBDA guard :
                    lock_guard(SetTopLock(Release(s3, master_lock), t, guard),
                               t, guard)))))

\* A lock() that runs its admission without the gate.
lock_without_gate(s, t, key) ==
    lock_admit(Push(s, t, [key |-> key, lock |-> master_lock]), t)

\* lock(key) called by a running task.
lock(s, t, key) ==
    Do(Push(s, t, [key |-> key, lock |-> master_lock]), LAMBDA s1 :
        IF CanAcquireNow(s1, master_lock)
        THEN lock_admit(Take(s1, master_lock), t)
        ELSE Park(s1, master_lock, t, "gate"))

\* A lock() whose bookkeeping after the yield is not in a finally block.
lock_exit_no_finally(s0, t, raised) ==
    Do(s0, LAMBDA s :
        IF raised THEN Pop(Release(s, Top(s, t).lock), t)
        ELSE Pop(lock_finally(Release(s, Top(s, t).lock)), t))

\* A lock() that acquires the guard by hand and does not release it when the
\* body raises.
lock_exit_leak(s0, t, raised) ==
    Do(s0, LAMBDA s :
        IF raised THEN Pop(lock_finally(s), t)
        ELSE Pop(lock_finally(Release(s, Top(s, t).lock)), t))

\* lock(): the body of `async with lock(key)` ends, normally or by an
\* exception: the guard is released by its `async with`, then the finally
\* block runs.
lock_exit(s0, t, raised) ==
    Do(s0, LAMBDA s : Pop(lock_finally(Release(s, Top(s, t).lock)), t))

\* A lock_all() that does not wait for count_guards == 0.
lock_all_no_wait(s, t) == Running(clear(s), t)

\* lock_all(), lines 38-42, run with the gate held: wait_for(predicate),
\* then the reset and the yield to the body.
lock_all_wait(s0, t) ==
    Do(s0, LAMBDA s :
        IF predicate(s)
        THEN Running(clear(Check(s, predicate(s), "lock_all: predicate()")), t)
        ELSE [s EXCEPT !.cv_waiters = Append(@, t), !.fut[t] = "pending",
                       !.pc[t] = "cv"])

\* lock_all() called by a running task.
lock_all(s, t) ==
    Do(Push(s, t, [key |-> ALL, lock |-> master_lock]), LAMBDA s1 :
        IF CanAcquireNow(s1, master_lock)
        THEN lock_all_wait(Take(s1, master_lock), t)
        ELSE Park(s1, master_lock, t, "gate"))

\* lock_all(): the body ends.  The two assertions after the yield run only
\* when the body did not raise; the gate is released by its `async with`.
lock_all_exit(s0, t, raised) ==
    Do(s0, LAMBDA s :
        Pop(Release(IF raised THEN s
                    ELSE Check(Check(Check(s, predicate(s),
                                           "lock_all: predicate() after yield"),
                                     num_of_locked(s).raised = "none",
                                     "_num_of_locked: master_lock.locked()"),
                               num_of_locked(s) = NoneLocked,
                               "lock_all: _num_of_locked() == 0"),
                    master_lock), t))

\* A suspended task is resumed by the result of its future.
resume(s0, t) ==
    Do(s0, LAMBDA s :
        CASE s.pc[t] = "gate" ->
               IF Top(s, t).key = ALL
               THEN lock_all_wait(Running(Woken(s, master_lock, t), t), t)
               ELSE lock_admit(Running(Woken(s, master_lock, t), t), t)
          [] s.pc[t] = "guard" -> Running(Woken(s, Top(s, t).lock, t), t)
          [] s.pc[t] = "cv" ->
               lock_all_wait([s EXCEPT !.cv_waiters = Without(@, t)], t))

\* A lock() whose `async with guard` is outside the try: a cancelled wait
\* for the mutex skips the finally block.
cancelled_no_finally(s0, t) ==
    Do(s0, LAMBDA s :
        CASE s.pc[t] = "gate" ->
               Pop(Running(Unpark(s, master_lock, t), t), t)
          [] s.pc[t] = "guard" ->
               Pop(Running(Unpark(s, Top(s, t).lock, t), t), t)
          [] s.pc[t] = "cv" ->
               Pop(Running(Release([s EXCEPT !.cv_waiters = Without(@, t)],
                                   master_lock), t), t))

\* A suspended task is resumed by CancelledError: the innermost call
\* unwinds.  Whether the error then leaves the enclosing bodies too (a
\* cancelled task) or is caught around the call (asyncio.timeout) is the
\* enclosing bodies' raise or normal continuation.
cancelled(s0, t) ==
    Do(s0, LAMBDA s :
        CASE s.pc[t] = "gate" ->
               Pop(Running(Unpark(s, master_lock, t), t), t)
          [] s.pc[t] = "guard" ->
               Pop(Running(lock_finally(Unpark(s, Top(s, t).lock, t)), t), t)
          [] s.pc[t] = "cv" ->
               Pop(Running(Release([s EXCEPT !.cv_waiters = Without(@, t)],
                                   master_lock), t), t))

\* Task.cancel() on a suspended task: the pending future is cancelled, or
\* the cancellation is kept for the task's next step.
cancel(s0, t) ==
    Do(s0, LAMBDA s :
        IF s.fut[t] = "pending" THEN [s EXCEPT !.fut[t] = "cancelled"]
        ELSE [s EXCEPT !.must_cancel[t] = TRUE])

\* Lock objects nothing refers to any more are garbage: forget their state.
CollectBut(s, refs) ==
    [s EXCEPT !.locked = [l \in AllLocks |-> l \in refs /\ s.locked[l]],
              !.waiters = [l \in AllLocks |->
                             IF l \in refs THEN s.waiters[l] ELSE <<>>]]

Collect(s) ==
    CHOOSE c \in {CollectBut(s, refs) :
                      refs \in {Referenced(s) \cup {master_lock}}} : TRUE

\* ------------------------------------------------------------------ actions
Locking(s0, what) ==
    \E s1 \in {s0} : \E s \in {Collect(s1)} :
        /\ locked' = s.locked
        /\ waiters' = s.waiters
        /\ locks' = s.locks
        /\ count_guards' = s.count_guards
        /\ cv_waiters' = s.cv_waiters
        /\ fut' = s.fut
        /\ must_cancel' = s.must_cancel
        /\ pc' = s.pc
        /\ stack' = s.stack
        /\ err' = s.err
        /\ last' = IF s.reset THEN "reset" ELSE what

\* A step of the Keysmith alone.
Become(s0, what) == Locking(s0, what) /\ UNCHANGED <<lvars, svars>>

Suspended(t) == pc[t] \in {"gate", "guard", "cv"}

InBody(t) == pc[t] = "run" /\ stack[t] # <<>>

\* Python's None, as a value that is no string.
None == << -1 >>

\* No call of the list-protocol engine has been made.
NoCall ==
    [op |-> "none", marker |-> None, continuation_token |-> None,
     start_after |-> None]

NoResult ==
    [objects |-> <<>>, common_prefixes |-> <<>>, is_truncated |-> FALSE,
     raised |-> FALSE]

NoListing ==
    /\ objects = <<>>
    /\ prefix = None
    /\ delimiter = None
    /\ max_keys = 0
    /\ encoding_type = None
    /\ call = NoCall
    /\ result = NoResult
    /\ pages = <<>>

\* No store operation has been called.
NoRet == [op |-> "none"]

\* A task that runs no store operation.
Idle == [op |-> "none", left |-> <<>>]

\* InMemoryStore.__init__, an empty branch of the remote repository, and
\* nothing called yet.
NoStore ==
    /\ store = "InMemoryStore"
    /\ buckets = <<>>
    /\ files = [p \in {} |-> None]
    /\ now = 0
    /\ ret = NoRet
    /\ put_ret = [p \in {} |-> None]
    /\ job = [t \in Tasks |-> Idle]

\* Keysmith.__init__
NewKeysmith ==
    /\ locked = [l \in AllLocks |-> FALSE]
    /\ waiters = [l \in AllLocks |-> <<>>]
    /\ locks = EmptyDict
    /\ count_guards = 0
    /\ cv_waiters = <<>>
    /\ fut = [t \in Tasks |-> "none"]
    /\ must_cancel = [t \in Tasks |-> FALSE]
    /\ pc = [t \in Tasks |-> "run"]
    /\ stack = [t \in Tasks |-> <<>>]
    /\ err = "ok"
    /\ last = "other"

Init == NewKeysmith /\ NoListing /\ NoStore

CallLock(t, key) ==
    /\ err = "ok"
    /\ pc[t] = "run"
    /\ Len(stack[t]) < MaxDepth
    /\ Become(lock(St, t, key), "other")

CallLockAll(t) ==
    /\ err = "ok"
    /\ pc[t] = "run"
    /\ Len(stack[t]) < MaxDepth
    /\ Become(lock_all(St, t), "other")

Resume(t) ==
    /\ err = "ok"
    /\ Suspended(t)
    /\ fut[t] = "done"
    /\ ~must_cancel[t]
    /\ Become(resume(St, t), "other")

Cancel(t) ==
    /\ err = "ok"
    /\ Suspended(t)
    /\ fut[t] \in {"pending", "done"}
    /\ ~must_cancel[t]
    /\ Become(cancel(St, t), "other")

Cancelled(t) ==
    /\ err = "ok"
    /\ Suspended(t)
    /\ fut[t] = "cancelled" \/ must_cancel[t]
    /\ Become(cancelled(St, t), "cancelled")

Exit(t) ==
    /\ err = "ok"
    /\ InBody(t)
    /\ Become(IF Top(St, t).key = ALL THEN lock_all_exit(St, t, FALSE)
                                       ELSE lock_exit(St, t, FALSE), "other")

Raise(t) ==
    /\ err = "ok"
    /\ InBody(t)
    /\ Become(IF Top(St, t).key = ALL THEN lock_all_exit(St, t, TRUE)
                                       ELSE lock_exit(St, t, TRUE), "raise")

Next ==
    \/ \E t \in Tasks, key \in Keys : CallLock(t, key)
    \/ \E t \in Tasks : CallLockAll(t)
    \/ \E t \in Tasks : Resume(t)
    \/ \E t \in Tasks : Cancel(t)
    \/ \E t \in Tasks : Cancelled(t)
    \/ \E t \in Tasks : Exit(t)
    \/ \E t \in Tasks : Raise(t)

Spec == Init /\ [][Next]_vars

\* Tasks that never nest and are never cancelled, under the event loop's
\* scheduling: a task whose future has a result is run, and a body ends.
FlatCallLock(t, key) == stack[t] = <<>> /\ CallLock(t, key)

FlatCallLockAll(t) == stack[t] = <<>> /\ CallLockAll(t)

FlatNext ==
    \/ \E t \in Tasks, key \in Keys : FlatCallLock(t, key)
    \/ \E t \in Tasks : FlatCallLockAll(t)
    \/ \E t \in Tasks : Resume(t)
    \/ \E t \in Tasks : Exit(t)
    \/ \E t \in Tasks : Raise(t)

SpecFair ==
    /\ Init
    /\ [][FlatNext]_vars
    /\ \A t \in Tasks : WF_vars(Resume(t)) /\ WF_vars(Exit(t))

\* ------------------------------------------------------------- vocabulary
Depth(t) == Len(stack[t])

\* The body of the task's i-th nested call has been entered.
Entered(t, i) == i \in 1..Depth(t) /\ (i < Depth(t) \/ pc[t] = "run")

\* The i-th call is a lock(k) that passed admission and has not finished
\* its release.
Admitted(t, i) ==
    /\ i \in 1..Depth(t)
    /\ stack[t][i].key # ALL
    /\ Entered(t, i) \/ pc[t] = "guard"

AdmittedCalls == {c \in Tasks \X (1..MaxDepth) : Admitted(c[1], c[2])}

\* The task is inside the body of lock(k).
InLock(t, k) == \E i \in 1..Depth(t) : Entered(t, i) /\ stack[t][i].key = k

\* The task is inside the body of lock_all().
InLockAll(t) == InLock(t, ALL)

\* The task holds the gate in lock_all(): waiting for held == 0 or in the body.
HoldsGate(t) == InLockAll(t) \/ pc[t] = "cv"

\* The task is suspended on lock l.
WaitsOn(t, l) ==
    pc[t] \in {"gate", "guard"} /\ stack[t][Depth(t)].lock = l

\* ------------------------------------------------------------------ claims

\* C1. Mutual exclusion: two different tasks are never inside the body of
\* lock(k) for the same key k, whatever the interleaving of lock, lock_all,
\* cancellations and failing bodies.
C1_MutualExclusion ==
    \A t \in Tasks, u \in Tasks, k \in Keys :
        t # u => ~(InLock(t, k) /\ InLock(u, k))

\* One task is inside lock(k) while another, admitted for the same k, waits
\* for k's mutex.
C1_Witness ==
    \E t \in Tasks, u \in Tasks, k \in Keys :
        /\ t # u
        /\ InLock(t, k)
        /\ pc[u] = "guard"
        /\ stack[u][Depth(u)].key = k

\* C2. lock_all() is exclusive: while a task is inside the body of
\* lock_all(), no other task is inside the body of lock(k), for any k, or of
\* lock_all().
C2_LockAllExclusive ==
    \A t \in Tasks, u \in Tasks :
        (t # u /\ InLockAll(t)) =>
            \A i \in 1..Depth(u) : ~Entered(u, i)

\* A task is inside lock_all() while another task's lock(k) waits at the
\* gate and a third call of lock_all() waits there too.
C2_Witness ==
    \E t \in Tasks, u \in Tasks, v \in Tasks :
        /\ InLockAll(t)
        /\ u # t /\ pc[u] = "gate" /\ stack[u][Depth(u)].key # ALL
        /\ v # t /\ pc[v] = "gate" /\ stack[v][Depth(v)].key = ALL

\* C3. From the moment a lock_all() call holds the gate (waiting for
\* count_guards to reach zero, or in its body) no step admits a lock(k):
\* count_guards is not incremented and no key is inserted into the dict.
C3_GateBlocksAdmission ==
    [][(\E t \in Tasks : HoldsGate(t)) =>
          /\ count_guards' <= count_guards
          /\ DOMAIN locks' \subseteq DOMAIN locks]_vars

\* A lock_all() call waits for count_guards == 0 while a lock(k) call of
\* another task is held back at the gate.
C3_Witness ==
    \E t \in Tasks, u \in Tasks :
        /\ pc[t] = "cv"
        /\ count_guards > 0
        /\ pc[u] = "gate" /\ stack[u][Depth(u)].key # ALL

\* C4. Independence: a call admitted for key k waits for k's mutex only
\* because another admitted call for the same k holds it or queues for it,
\* and the gate is never held across a suspension by a lock(k) call, only
\* by lock_all(); so guards on distinct keys are held at the same time.
C4_Independence ==
    /\ \A t \in Tasks :
          (pc[t] = "guard" /\ fut[t] = "pending") =>
              \E c \in AdmittedCalls :
                  /\ c # <<t, Depth(t)>>
                  /\ stack[c[1]][c[2]].key = stack[t][Depth(t)].key
    /\ locked[master_lock] => \E t \in Tasks : HoldsGate(t)

\* Two tasks are inside the bodies of lock(k1) and lock(k2), k1 # k2, while
\* a third waits for k1.
C4_Witness ==
    \E t \in Tasks, u \in Tasks, v \in Tasks, k1 \in Keys, k2 \in Keys :
        /\ t # u /\ k1 # k2
        /\ InLock(t, k1) /\ InLock(u, k2)
        /\ pc[v] = "guard" /\ stack[v][Depth(v)].key = k1

\* C5. Scoped release on failure: the step in which the body of
\* `async with lock(k)` raises unlocks the guard's mutex and takes the call
\* out of count_guards; the step in which the body of
\* `async with lock_all()` raises frees the gate; and when that leaves no
\* call in progress, count_guards is 0 and no lock at all is locked.
C5_ScopedRelease ==
    [][last' = "raise" =>
          \A t \in Tasks :
              stack'[t] # stack[t] =>
                  /\ stack'[t] = SubSeq(stack[t], 1, Depth(t) - 1)
                  /\ IF stack[t][Depth(t)].key = ALL
                     THEN /\ ~locked'[master_lock]
                          /\ count_guards' = count_guards
                     ELSE /\ ~locked'[stack[t][Depth(t)].lock]
                          /\ count_guards' = count_guards - 1
                  /\ count_guards' = Cardinality(AdmittedCalls)'
                  /\ (\A u \in Tasks : stack'[u] = <<>>) =>
                         /\ count_guards' = 0
                         /\ \A l \in AllLocks : ~locked'[l]]_vars

\* The body of the only call in progress, a lock(k), has just raised.
C5_Witness ==
    /\ last = "raise"
    /\ \A t \in Tasks : stack[t] = <<>>
    /\ locks # EmptyDict
    /\ count_guards = 0

\* C6. Cancellation safety: right after a CancelledError was delivered to a
\* call waiting at the gate, on a per-key mutex or for count_guards == 0,
\* count_guards is the number of admitted calls that remain, the gate is
\* locked only if a lock_all() call holds it, the guards and the gate held
\* by the calls that remain are still locked, no queue holds a task that no
\* longer waits there, and a free lock with waiters has its first waiter
\* on its way (so later calls are admitted).
C6_CancellationSafety ==
    last = "cancelled" =>
        /\ count_guards = Cardinality(AdmittedCalls)
        /\ locked[master_lock] <=> \E t \in Tasks : HoldsGate(t)
        /\ \A c \in AdmittedCalls :
              Entered(c[1], c[2]) => locked[stack[c[1]][c[2]].lock]
        /\ \A l \in AllLocks : \A i \in 1..Len(waiters[l]) :
              WaitsOn(waiters[l][i], l)
        /\ \A i \in 1..Len(cv_waiters) : pc[cv_waiters[i]] = "cv"
        /\ \A l \in AllLocks :
              (~locked[l] /\ waiters[l] # <<>>) =>
                  fut[Head(waiters[l])] # "pending"
        /\ (count_guards = 0 /\ cv_waiters # <<>>) =>
              fut[Head(cv_waiters)] # "pending"

\* A waiting call was cancelled and its task is idle again, while another
\* task is inside lock(k) and a lock_all() call waits for count_guards == 0.
C6_Witness ==
    /\ last = "cancelled"
    /\ count_guards = 1
    /\ \E t \in Tasks, u \in Tasks, k \in Keys :
          /\ pc[t] = "run" /\ stack[t] = <<>>
          /\ InLock(u, k)
          /\ \E v \in Tasks : pc[v] = "cv"

\* C7. No recursion: while a task is inside lock(k), a nested lock(k) or
\* lock_all() of the same task is never entered: it is the task's innermost
\* call, it is suspended, once it waits for the mutex or for
\* count_guards == 0 its future never gets a result (only a cancellation
\* ends the wait), and the outer guard stays locked.
C7_NoRecursion ==
    \A t \in Tasks : \A i \in 1..Depth(t), j \in 1..Depth(t) :
        (/\ i < j
         /\ stack[t][i].key # ALL
         /\ stack[t][j].key \in {stack[t][i].key, ALL}) =>
            /\ j = Depth(t)
            /\ pc[t] # "run"
            /\ pc[t] \in {"guard", "cv"} => fut[t] # "done"
            /\ locked[stack[t][i].lock]

\* One task inside lock(k) waits for k's mutex again, and another task
\* inside lock(k') waits in lock_all() for count_guards == 0.
C7_Witness ==
    \E t \in Tasks, u \in Tasks :
        /\ Depth(t) = 2 /\ pc[t] = "guard"
        /\ stack[t][1].key = stack[t][2].key
        /\ Depth(u) = 2 /\ pc[u] = "cv"
        /\ stack[u][1].key # ALL

\* C8. lock(k) on a key held by another task blocks until the holder
\* releases and then goes on: a waiter is woken only when the mutex is free
\* and it is first in the queue, and (tasks that do not nest and are not
\* cancelled, bodies that end) every call that waits for a mutex enters its
\* body.
C8_BlocksUntilRelease ==
    /\ [](\A t \in Tasks :
            (pc[t] = "guard" /\ fut[t] = "done") =>
                /\ ~locked[stack[t][Depth(t)].lock]
                /\ Head(waiters[stack[t][Depth(t)].lock]) = t)
    /\ \A t \in Tasks :
          (pc[t] = "guard") ~> (pc[t] = "run" /\ stack[t] # <<>>)

\* One task is inside lock(k) and two others queue for k's mutex.
C8_Witness ==
    \E t \in Tasks, k \in Keys :
        /\ InLock(t, k)
        /\ Len(waiters[locks[k]]) = 2
        /\ \A i \in 1..2 : fut[waiters[locks[k]][i]] = "pending"

\* C9. count_guards accounting: count_guards is the number of lock(k)
\* calls that passed admission and have not finished their release (so it
\* is not negative); throughout a body of lock_all(), from its start to its
\* end, count_guards is 0 and no per-key mutex is locked; and no assertion
\* of Keysmith fails, that of _num_of_locked included: it would not fail if
\* called anywhere in a body of lock_all().
C9_HeldAccounting ==
    /\ count_guards = Cardinality(AdmittedCalls)
    /\ count_guards >= 0
    /\ err = "ok"
    /\ \A t \in Tasks :
          InLockAll(t) =>
              /\ count_guards = 0
              /\ num_of_locked(St) = NoneLocked
              /\ \A l \in LockIds : ~locked[l]

\* Every task has a call admitted, one of them nested, and one of the
\* mutexes has just been handed to a waiter that has not run yet.
C9_Witness ==
    /\ count_guards = NumTasks + 1
    /\ \E t \in Tasks : pc[t] = "guard" /\ fut[t] = "done"

\* Some step admits a call: a lock(k) passes admission or a lock_all()
\* enters its body.
AdmitsLock == count_guards' = count_guards + 1

AdmitsLockAll == \E t \in Tasks : ~InLockAll(t) /\ InLockAll(t)'

\* C10 as stated: an admission that finds count_guards == 0 leaves the dict
\* with no entry.
C10_SizeDropsToZero ==
    [][(count_guards = 0 /\ locks # EmptyDict
            /\ (AdmitsLock \/ AdmitsLockAll)) =>
          Cardinality(DOMAIN locks') = 0]_vars

\* C10, amended. Quiet reset: an admission that finds count_guards == 0
\* drops every entry the dict had; after the admission of lock_all() the
\* dict is empty, and after the admission of lock(k) it holds the entry of
\* k alone, so mutexes of released keys do not accumulate.
C10_QuietReset ==
    [][count_guards = 0 =>
          /\ AdmitsLockAll => locks' = EmptyDict
          /\ AdmitsLock =>
                \E t \in Tasks :
                    /\ Admitted(t, Depth(t))'
                    /\ DOMAIN locks' = {stack'[t][Depth(t)'].key}]_vars

\* A lock(k) admitted after every guard was released has just reset a dict
\* that held the mutex of another key.
C10_Witness ==
    /\ last = "reset"
    /\ count_guards = 1
    /\ Cardinality(DOMAIN locks) = 1

\* The task is inside lock(k1) and, nested in it, inside lock(k2).
NestedIn(t, k1, k2) ==
    /\ Depth(t) = 2
    /\ pc[t] = "run"
    /\ stack[t][1].key = k1
    /\ stack[t][2].key = k2

\* Nobody holds or awaits the gate, and nobody holds or awaits k's mutex.
FreeKey(k) ==
    /\ CanAcquireNow(St, master_lock)
    /\ k \in DOMAIN locks => CanAcquireNow(St, locks[k])

\* C11. Nested acquisition of distinct keys: a task inside lock(k1) that
\* calls lock(k2) for another key k2, free at that moment, enters the inner
\* body in that very step; while it is nested both mutexes are locked and
\* are the ones the dict maps k1 and k2 to; when the inner body ends, k2's
\* mutex is unlocked and k1's is still locked.  The property is about every
\* step, so it also covers repeated use of the same Keysmith.
C11_NestedDistinctKeys ==
    /\ [](\A t \in Tasks, k1 \in Keys, k2 \in Keys :
            (k1 # k2 /\ NestedIn(t, k1, k2)) =>
                /\ k1 \in DOMAIN locks /\ k2 \in DOMAIN locks
                /\ stack[t][1].lock = locks[k1] /\ locked[locks[k1]]
                /\ stack[t][2].lock = locks[k2] /\ locked[locks[k2]]
                /\ locks[k1] # locks[k2])
    /\ [][\A t \in Tasks, k1 \in Keys, k2 \in Keys :
            /\ (/\ k1 # k2
                /\ Depth(t) = 1 /\ InLock(t, k1) /\ FreeKey(k2)
                /\ Depth(t)' = 2 /\ stack'[t][2].key = k2)
               => (NestedIn(t, k1, k2)' /\ err' = "ok")
            /\ (k1 # k2 /\ NestedIn(t, k1, k2) /\ Depth(t)' = 1)
               => /\ err' = "ok"
                  /\ InLock(t, k1)'
                  /\ locks' = locks
                  /\ ~locked'[locks'[k2]]
                  /\ locked'[locks'[k1]]]_vars

\* A task is nested in lock(k1), lock(k2) while another task, admitted for
\* k2, waits for the inner key's mutex.
C11_Witness ==
    \E t \in Tasks, u \in Tasks, k1 \in Keys, k2 \in Keys :
        /\ k1 # k2 /\ t # u
        /\ NestedIn(t, k1, k2)
        /\ pc[u] = "guard" /\ WaitsOn(u, locks[k2])
        /\ count_guards = 3

\* ------------------------------------------------ the list-protocol engine
\* Inputs of the engine.  Keys are non-empty strings without a leading
\* slash; prefix and delimiter are any strings; a cursor is None, the empty
\* string or a key.
MaxLen == 2
MaxAffix == 1
MaxCursor == 1
MaxObjects == 3
MaxPage == 2

Slash == 47
Alphabet == {Slash, 97, 123}

Strings(n) == UNION {[1..m -> Alphabet] : m \in 0..n}

KeyUniverse == {s \in Strings(MaxLen) : s # <<>> /\ s[1] # Slash}

ObjectLists == UNION {[1..m -> KeyUniverse] : m \in 0..MaxObjects}

OptionalStrings == {None} \cup Strings(MaxAffix)

Cursors == {None, <<>>} \cup {k \in KeyUniverse : Len(k) <= MaxCursor}

url == <<117, 114, 108>>

\* `if x:` for x of type str | None
Truthy(x) == x # None /\ x # <<>>

\* str.startswith
startswith(s, p) == Len(p) <= Len(s) /\ SubSeq(s, 1, Len(p)) = p

\* a < b for str: the order of the first code point that differs
StrLess(a, b) ==
    \E i \in 1..Len(b) :
        /\ i - 1 <= Len(a)
        /\ SubSeq(a, 1, i - 1) = SubSeq(b, 1, i - 1)
        /\ i > Len(a) \/ a[i] < b[i]

\* sorted(objects, key=lambda obj: obj.key): a stable sort
Insert(k, s0) ==
    Do(s0, LAMBDA s :
        Do(Cardinality({i \in 1..Len(s) : ~StrLess(k, s[i])}), LAMBDA n :
            SubSeq(s, 1, n) \o <<k>> \o SubSeq(s, n + 1, Len(s))))

RECURSIVE sorted(_)
sorted(s) ==
    IF s = <<>> THEN <<>>
    ELSE Insert(s[Len(s)], sorted(SubSeq(s, 1, Len(s) - 1)))

\* The common prefixes in descending order: sorted(..., reverse=True).
RECURSIVE sorted_set_reversed(_)
sorted_set_reversed(S) ==
    IF S = {} THEN <<>>
    ELSE LET m == CHOOSE x \in S : \A y \in S : ~StrLess(x, y)
         IN  <<m>> \o sorted_set_reversed(S \ {m})

\* sorted(common_prefixes) of a set of strings
RECURSIVE sorted_set(_)
sorted_set(S) ==
    IF S = {} THEN <<>>
    ELSE LET m == CHOOSE x \in S : \A y \in S : ~StrLess(y, x)
         IN  <<m>> \o sorted_set(S \ {m})

\* A page cut one element too late: objects[:n + 1].
SliceInclusive(s, n) == SubSeq(s, 1, IF n + 1 < Len(s) THEN n + 1 ELSE Len(s))

\* objects[:n] for n >= 0
Slice(s, n) == SubSeq(s, 1, IF n < Len(s) THEN n ELSE Len(s))

\* `delimiter in key` and key.index(delimiter), counted from 0
Occurs(key, d, i) == SubSeq(key, i + 1, i + Len(d)) = d

Contains(key, d) == \E i \in 0..(Len(key) - Len(d)) : Occurs(key, d, i)

Index(key, d) ==
    CHOOSE i \in 0..(Len(key) - Len(d)) :
        Occurs(key, d, i) /\ \A j \in 0..(i - 1) : ~Occurs(key, d, j)

\* urllib.parse.quote(s, safe="-_./*") on ASCII: letters, digits and
\* _ . - ~ are never quoted, the safe characters are not quoted, any other
\* character c becomes %XX with XX the upper-case hexadecimal of c.
Safe ==
    (48..57) \cup (65..90) \cup (97..122) \cup {95, 46, 45, 126}
        \cup {45, 95, 46, Slash, 42}

HexDigit(d) == IF d < 10 THEN 48 + d ELSE 55 + d

QuoteChar(c) ==
    IF c \in Safe THEN <<c>>
    ELSE <<37, HexDigit(c \div 16), HexDigit(c % 16)>>

RECURSIVE quote(_)
quote(s) == IF s = <<>> THEN <<>> ELSE QuoteChar(Head(s)) \o quote(Tail(s))

\* A split that looks for the delimiter one character too far into the key:
\* key = obj.key[plen + 1:].
split_suffix_off_by_one(objs, pfx, delim) ==
    LET p == IF Truthy(pfx) THEN pfx ELSE <<>>
        plen == Len(p)
        key(k) == SubSeq(k, plen + 2, Len(k))
        rolled == {i \in 1..Len(objs) : Contains(key(objs[i]), delim)}
    IN  IF ~Truthy(delim)
        THEN [contents |-> objs, common_prefixes |-> <<>>, raised |-> FALSE]
        ELSE [contents |-> SelectSeq(objs, LAMBDA k : ~Contains(key(k), delim)),
              common_prefixes |->
                  sorted_set({SubSeq(objs[i], 1,
                                     plen + 1 + Index(key(objs[i]), delim)
                                          + Len(delim)) : i \in rolled}),
              raised |-> \E i \in 1..Len(objs) : ~startswith(objs[i], p)]

\* _split_contents_and_prefixes: [contents, common_prefixes, raised]
split_contents_and_prefixes(objs, pfx, delim) ==
    LET p == IF Truthy(pfx) THEN pfx ELSE <<>>
        plen == Len(p)
        key(k) == SubSeq(k, plen + 1, Len(k))
        rolled == {i \in 1..Len(objs) : Contains(key(objs[i]), delim)}
    IN  IF ~Truthy(delim)
        THEN [contents |-> objs, common_prefixes |-> <<>>, raised |-> FALSE]
        ELSE [contents |-> SelectSeq(objs, LAMBDA k : ~Contains(key(k), delim)),
              common_prefixes |->
                  sorted_set({SubSeq(objs[i], 1,
                                     plen + Index(key(objs[i]), delim)
                                          + Len(delim)) : i \in rolled}),
              raised |-> \E i \in 1..Len(objs) : ~startswith(objs[i], p)]

\* _encode_keys_and_prefixes
encode_keys_and_prefixes(sp, enc) ==
    IF enc = url
    THEN [sp EXCEPT
             !.contents = [i \in 1..Len(@) |-> quote(@[i])],
             !.common_prefixes = [i \in 1..Len(@) |-> quote(@[i])]]
    ELSE sp

\* Candidates that are filtered but left in the order of the input.
candidates_unsorted(objs, pfx, after) ==
    LET filtered == IF Truthy(pfx)
                    THEN SelectSeq(objs, LAMBDA k : startswith(k, pfx))
                    ELSE objs
    IN  IF Truthy(after)
        THEN SelectSeq(filtered, LAMBDA k : StrLess(after, k))
        ELSE filtered

\* A cursor skip that keeps the cursor itself: obj.key >= marker.
candidates_inclusive(objs, pfx, after) ==
    LET filtered == IF Truthy(pfx)
                    THEN SelectSeq(objs, LAMBDA k : startswith(k, pfx))
                    ELSE objs
        ordered == sorted(filtered)
    IN  IF Truthy(after)
        THEN SelectSeq(ordered, LAMBDA k : ~StrLess(k, after))
        ELSE ordered

\* filter_objects, lines 15-23, and filter_objects_v2, lines 53-62: the
\* prefix filter, the sort, the cursor skip; then the truncation probe and
\* the page.
candidates(objs, pfx, after) ==
    LET filtered == IF Truthy(pfx)
                    THEN SelectSeq(objs, LAMBDA k : startswith(k, pfx))
                    ELSE objs
        ordered == sorted(filtered)
    IN  IF Truthy(after)
        THEN SelectSeq(ordered, LAMBDA k : StrLess(after, k))
        ELSE ordered

\* A truncation probe that also fires on a page that is exactly full.
truncated_when_full(objs, n) == Len(objs) >= n

truncated(objs, n) == Len(objs) > n

\* A filter_objects that sets next_marker whether or not the page is
\* truncated.
filter_objects_marker_always(objs, pfx, delim, n, marker, enc) ==
    LET cand == candidates(objs, pfx, marker)
        sp == encode_keys_and_prefixes(
                  split_contents_and_prefixes(Slice(cand, n), pfx, delim), enc)
    IN  [is_truncated |-> truncated(cand, n),
         common_prefixes |-> sp.common_prefixes,
         objects |-> sp.contents,
         next_marker |->
             IF sp.common_prefixes # <<>>
             THEN sp.common_prefixes[Len(sp.common_prefixes)]
             ELSE IF sp.contents # <<>>
                  THEN sp.contents[Len(sp.contents)]
                  ELSE <<>>,
         raised |-> sp.raised]

\* A filter_objects that prefers the last content key to the last common
\* prefix as next_marker.
filter_objects_marker_last_key(objs, pfx, delim, n, marker, enc) ==
    LET cand == candidates(objs, pfx, marker)
        is_truncated == truncated(cand, n)
        sp == encode_keys_and_prefixes(
                  split_contents_and_prefixes(Slice(cand, n), pfx, delim), enc)
    IN  [is_truncated |-> is_truncated,
         common_prefixes |-> sp.common_prefixes,
         objects |-> sp.contents,
         next_marker |->
             IF is_truncated
             THEN IF sp.contents # <<>>
                  THEN sp.contents[Len(sp.contents)]
                  ELSE IF sp.common_prefixes # <<>>
                       THEN sp.common_prefixes[Len(sp.common_prefixes)]
                       ELSE <<>>
             ELSE <<>>,
         raised |-> sp.raised]

\* filter_objects (each local of the function is bound once)
filter_objects(objs, pfx, delim, n, marker, enc) ==
    Do(candidates(objs, pfx, marker), LAMBDA cand :
      Do(truncated(cand, n), LAMBDA is_truncated :
        Do(encode_keys_and_prefixes(
               split_contents_and_prefixes(Slice(cand, n), pfx, delim), enc),
           LAMBDA sp :
            [is_truncated |-> is_truncated,
             common_prefixes |-> sp.common_prefixes,
             objects |-> sp.contents,
             next_marker |->
                 IF is_truncated
                 THEN IF sp.common_prefixes # <<>>
                      THEN sp.common_prefixes[Len(sp.common_prefixes)]
                      ELSE IF sp.contents # <<>>
                           THEN sp.contents[Len(sp.contents)]
                           ELSE <<>>
                 ELSE <<>>,
             raised |-> sp.raised])))

\* The two cursors of v2 in the other order: start_after or
\* continuation_token.
after_cursor_start_first(continuation_token, start_after) ==
    IF Truthy(start_after) THEN start_after ELSE continuation_token

\* continuation_token or start_after
after_cursor(continuation_token, start_after) ==
    IF Truthy(continuation_token) THEN continuation_token ELSE start_after

\* filter_objects_v2
filter_objects_v2(objs, continuation_token, delim, enc, n, pfx, start_after) ==
    LET cand == candidates(objs, pfx,
                           after_cursor(continuation_token, start_after))
        is_truncated == truncated(cand, n)
        sp == encode_keys_and_prefixes(
                  split_contents_and_prefixes(Slice(cand, n), pfx, delim), enc)
    IN  [objects |-> sp.contents,
         is_truncated |-> is_truncated,
         common_prefixes |-> sp.common_prefixes,
         raised |-> sp.raised]

\* ------------------------------------------------- one call of the engine
ListInit ==
    /\ NewKeysmith
    /\ NoStore
    /\ objects \in ObjectLists
    /\ prefix \in OptionalStrings
    /\ delimiter \in OptionalStrings
    /\ max_keys \in 0..MaxPage
    /\ encoding_type \in {None, url}
    /\ call = NoCall
    /\ result = NoResult
    /\ pages = <<>>

ListObjects(marker) ==
    /\ call.op = "none"
    /\ call' = [NoCall EXCEPT !.op = "v1", !.marker = marker]
    /\ result' = filter_objects(objects, prefix, delimiter, max_keys, marker,
                                encoding_type)
    /\ UNCHANGED <<kvars, svars, objects, prefix, delimiter, max_keys,
                   encoding_type, pages>>

ListObjectsV2(continuation_token, start_after) ==
    /\ call.op = "none"
    /\ call' = [NoCall EXCEPT !.op = "v2",
                              !.continuation_token = continuation_token,
                              !.start_after = start_after]
    /\ result' = filter_objects_v2(objects, continuation_token, delimiter,
                                   encoding_type, max_keys, prefix,
                                   start_after)
    /\ UNCHANGED <<kvars, svars, objects, prefix, delimiter, max_keys,
                   encoding_type, pages>>

ListNext ==
    \/ \E marker \in Cursors : ListObjects(marker)
    \/ \E continuation_token \in Cursors, start_after \in Cursors :
           ListObjectsV2(continuation_token, start_after)

SpecList == ListInit /\ [][ListNext]_vars

\* ------------------------------------------------------- listing vocabulary
Called == call.op # "none"

\* The cursor of the call made.
Cursor ==
    IF call.op = "v1" THEN call.marker
    ELSE after_cursor(call.continuation_token, call.start_after)

\* prefix or ""
PrefixStr == IF Truthy(prefix) THEN prefix ELSE <<>>

\* key[len(prefix):]
Suffix(k) == SubSeq(k, Len(PrefixStr) + 1, Len(k))

\* C12. The number of returned content objects plus the number of returned
\* common prefixes is at most max_keys, for filter_objects and for
\* filter_objects_v2, on every input.
C12_AtMostMaxKeys ==
    Called => Len(result.objects) + Len(result.common_prefixes) <= max_keys

\* A truncated page that uses up max_keys with one content object and one
\* common prefix.
C12_Witness ==
    /\ Called
    /\ result.is_truncated
    /\ Len(result.objects) = 1
    /\ Len(result.common_prefixes) = 1
    /\ max_keys = 2

\* C13. With encoding_type unset, every returned content key starts with
\* the prefix and, when a non-empty delimiter is given, the part of the key
\* after the prefix does not contain the delimiter.
C13_ContentKeys ==
    (Called /\ encoding_type = None) =>
        \A i \in 1..Len(result.objects) :
            /\ startswith(result.objects[i], PrefixStr)
            /\ Truthy(delimiter) => ~Contains(Suffix(result.objects[i]), delimiter)

\* A listing with a non-empty prefix and a non-empty delimiter that returns
\* a content key longer than the prefix next to a common prefix.
C13_Witness ==
    /\ Called /\ encoding_type = None
    /\ Truthy(prefix) /\ Truthy(delimiter)
    /\ result.common_prefixes # <<>>
    /\ \E i \in 1..Len(result.objects) : result.objects[i] # prefix

\* The keys of the page: the first max_keys candidates, before the rollup
\* and the encoding.
Page == Slice(candidates(objects, prefix, Cursor), max_keys)

\* The key's suffix after the prefix contains the delimiter.
IsRolled(k) == Truthy(delimiter) /\ Contains(Suffix(k), delimiter)

\* key[:len(prefix) + i + len(delimiter)], i the first index of the
\* delimiter in the suffix.
RolledPrefix(k) ==
    SubSeq(k, 1, Len(PrefixStr) + Index(Suffix(k), delimiter) + Len(delimiter))

\* A returned string as the encoding of a key or prefix.
Encoded(x) == IF encoding_type = url THEN quote(x) ELSE x

\* The page's rolled-up keys.
RolledKeys == {n \in 1..Len(Page) : IsRolled(Page[n])}

\* C14 as stated, for every listing result: common_prefixes is sorted
\* ascending without duplicates, shares no element with the content keys,
\* and each element is key[:len(prefix)+i+len(delimiter)] for a key of the
\* page whose suffix first contains the delimiter at index i.
C14_SortedPrefixesOfKeys ==
    Called =>
        LET cp == result.common_prefixes
        IN  /\ \A i \in 1..Len(cp), j \in 1..Len(cp) :
                  i < j => StrLess(cp[i], cp[j])
            /\ \A i \in 1..Len(cp), j \in 1..Len(result.objects) :
                  cp[i] # result.objects[j]
            /\ \A i \in 1..Len(cp) :
                  \E n \in RolledKeys : cp[i] = RolledPrefix(Page[n])

\* C14, amended: common_prefixes has no duplicates and shares no element
\* with the content keys; each element is the rolled-up prefix of a key of
\* the page, percent-encoded when encoding_type is "url"; and the elements
\* are in the ascending order of these prefixes before encoding.  So with
\* encoding_type unset the list is sorted ascending and made of prefixes of
\* keys; with "url" it is the encoding, element by element, of that list.
C14_CommonPrefixes ==
    Called =>
        LET cp == result.common_prefixes
        IN  /\ \A i \in 1..Len(cp), j \in 1..Len(cp) : i < j => cp[i] # cp[j]
            /\ \A i \in 1..Len(cp), j \in 1..Len(result.objects) :
                  cp[i] # result.objects[j]
            /\ \A i \in 1..Len(cp) :
                  \E n \in RolledKeys : cp[i] = Encoded(RolledPrefix(Page[n]))
            /\ \A i \in 1..Len(cp), j \in 1..Len(cp) :
                  i < j =>
                      \E n \in RolledKeys, m \in RolledKeys :
                          /\ cp[i] = Encoded(RolledPrefix(Page[n]))
                          /\ cp[j] = Encoded(RolledPrefix(Page[m]))
                          /\ StrLess(RolledPrefix(Page[n]),
                                     RolledPrefix(Page[m]))

\* A truncated url-encoded listing with two common prefixes, the second of
\* which is, as returned, smaller than the first.
C14_Witness ==
    /\ Called /\ encoding_type = url
    /\ result.is_truncated
    /\ Len(result.common_prefixes) = 2
    /\ StrLess(result.common_prefixes[2], result.common_prefixes[1])

\* C15. For every v1 listing result, next_marker is the empty string if and
\* only if is_truncated is false: every truncated page carries a non-empty
\* next_marker.
C15_NextMarkerIffTruncated ==
    call.op = "v1" => ((result.next_marker = <<>>) <=> ~result.is_truncated)

\* C15, amended: for every v1 listing result with max_keys >= 1,
\* next_marker is the empty string if and only if is_truncated is false;
\* with max_keys == 0 nothing is emitted and next_marker is the empty
\* string also when is_truncated is true.
C15_NextMarker ==
    call.op = "v1" =>
        /\ max_keys >= 1 =>
              ((result.next_marker = <<>>) <=> ~result.is_truncated)
        /\ max_keys = 0 => result.next_marker = <<>>
        /\ ~result.is_truncated => result.next_marker = <<>>

\* A truncated v1 page of max_keys = 2 entries that carries a next_marker.
C15_Witness ==
    /\ call.op = "v1"
    /\ max_keys = 2
    /\ result.is_truncated
    /\ result.next_marker # <<>>

\* C16. v1 next marker rule: when is_truncated, next_marker is the last
\* element of common_prefixes, which is the (encoded) greatest rolled-up
\* prefix of the page, if the page produced any common prefix; otherwise it
\* is the key of the last content entry, as returned.
C16_NextMarkerRule ==
    (call.op = "v1" /\ result.is_truncated) =>
        LET cp == result.common_prefixes
            contents == result.objects
            nm == result.next_marker
        IN  IF cp # <<>>
            THEN /\ nm = cp[Len(cp)]
                 /\ \E n \in RolledKeys :
                       /\ nm = Encoded(RolledPrefix(Page[n]))
                       /\ \A m \in RolledKeys :
                             ~StrLess(RolledPrefix(Page[n]),
                                      RolledPrefix(Page[m]))
            ELSE contents # <<>> =>
                     /\ nm = contents[Len(contents)]
                     /\ nm = Encoded(Page[Len(Page)])

\* A truncated v1 page with a common prefix and a content key greater than
\* it: next_marker is the common prefix.
C16_Witness ==
    /\ call.op = "v1" /\ result.is_truncated
    /\ Len(result.common_prefixes) = 1
    /\ Len(result.objects) = 1
    /\ StrLess(result.next_marker, result.objects[1])

\* The input objects that remain after the prefix filter and the cursor
\* skip.
Remaining ==
    {i \in 1..Len(objects) :
        /\ startswith(objects[i], PrefixStr)
        /\ Truthy(Cursor) => StrLess(Cursor, objects[i])}

\* C17. With max_keys == 0 a listing (v1 or v2) emits no contents and no
\* common prefixes, and is_truncated is true exactly when at least one
\* candidate remains after the prefix filter and the cursor skip.
C17_MaxKeysZero ==
    (Called /\ max_keys = 0) =>
        /\ result.objects = <<>>
        /\ result.common_prefixes = <<>>
        /\ result.is_truncated <=> Remaining # {}

\* A listing with max_keys == 0, a prefix and a cursor, over three objects
\* of which only one remains: it is truncated.
C17_Witness ==
    /\ Called /\ max_keys = 0
    /\ Truthy(prefix) /\ Truthy(Cursor)
    /\ Len(objects) = 3
    /\ Cardinality(Remaining) = 1
    /\ result.is_truncated

\* C19. With no delimiter a page consists of exactly the first max_keys
\* keys, in ascending order, among the candidates (the objects whose key
\* starts with the prefix and is strictly greater than the cursor), as
\* returned (percent-encoded under "url"); there are no common prefixes; and
\* is_truncated is true exactly when more than max_keys candidates exist.
\* The page is determined by the candidates alone, whatever the order of the
\* input; a listing that is not truncated returns all of them.
C19_PlainSortedPage ==
    (Called /\ ~Truthy(delimiter)) =>
        LET out == result.objects
            total == Cardinality(Remaining)
        IN  /\ result.common_prefixes = <<>>
            /\ Len(out) = IF total < max_keys THEN total ELSE max_keys
            /\ result.is_truncated <=> total > max_keys
            /\ \E f \in [1..Len(out) -> Remaining] :
                  /\ \A i \in 1..Len(out), j \in 1..Len(out) :
                        i < j => /\ f[i] # f[j]
                                 /\ ~StrLess(objects[f[j]], objects[f[i]])
                  /\ \A i \in 1..Len(out) : out[i] = Encoded(objects[f[i]])
                  /\ \A i \in 1..Len(out), r \in Remaining :
                        (\A j \in 1..Len(out) : f[j] # r) =>
                            ~StrLess(objects[r], objects[f[i]])

\* A truncated page of two keys with a prefix and no delimiter, over three
\* objects passed in descending order.
C19_Witness ==
    /\ Called /\ ~Truthy(delimiter) /\ Truthy(prefix)
    /\ Len(objects) = 3
    /\ StrLess(objects[3], objects[2]) /\ StrLess(objects[2], objects[1])
    /\ result.is_truncated
    /\ Len(result.objects) = 2

\* C20. v2 cursor: filter_objects_v2 retains only keys strictly greater
\* than continuation_token when one is given (a non-empty string),
\* otherwise only keys strictly greater than start_after when that is
\* given; continuation_token takes precedence when both are given; and v2
\* returns the contents, the common prefixes and the is_truncated that v1
\* returns with that cursor as marker.
C20_V2Cursor ==
    call.op = "v2" =>
        LET ct == call.continuation_token
            sa == call.start_after
            v1 == filter_objects(objects, prefix, delimiter, max_keys,
                                 IF Truthy(ct) THEN ct ELSE sa, encoding_type)
        IN  /\ result.objects = v1.objects
            /\ result.common_prefixes = v1.common_prefixes
            /\ result.is_truncated = v1.is_truncated
            /\ encoding_type = None =>
                  \A i \in 1..Len(result.objects) :
                      /\ Truthy(ct) => StrLess(ct, result.objects[i])
                      /\ (~Truthy(ct) /\ Truthy(sa)) =>
                            StrLess(sa, result.objects[i])
            /\ (~Truthy(ct) /\ ~Truthy(sa)) =>
                  (result.is_truncated <=>
                      Cardinality({i \in 1..Len(objects) :
                          startswith(objects[i], PrefixStr)}) > max_keys)

\* A v2 call with both cursors, where an object lies after start_after but
\* not after continuation_token, and something after both is returned.
C20_Witness ==
    /\ call.op = "v2"
    /\ Truthy(call.continuation_token) /\ Truthy(call.start_after)
    /\ \E i \in 1..Len(objects) :
          /\ StrLess(call.start_after, objects[i])
          /\ ~StrLess(call.continuation_token, objects[i])
    /\ result.objects # <<>>

\* ------------------------------------------------------- a v1 marker walk
\* A client lists a set of keys page by page: the first call has no marker,
\* every next call passes the previous page's next_marker, and the walk
\* stops at the first page that is not truncated.  No delimiter, no
\* encoding, max_keys >= 1.
KeySets ==
    {l \in ObjectLists : \A i \in 1..Len(l), j \in 1..Len(l) :
                             i # j => l[i] # l[j]}

\* No walk is longer than this: one page per key, and one more.
MaxWalk == MaxObjects + 1

\* The client picks the key set and the listing parameters.
WalkStart ==
    /\ call.op = "none"
    /\ objects' \in KeySets
    /\ prefix' \in OptionalStrings
    /\ delimiter' \in {None, <<>>}
    /\ max_keys' \in 1..MaxPage
    /\ encoding_type' = None
    /\ call' = [NoCall EXCEPT !.op = "walk"]
    /\ UNCHANGED <<kvars, svars, result, pages>>

WalkDone == call.op = "v1" /\ ~result.is_truncated

NextPage ==
    /\ call.op \in {"walk", "v1"}
    /\ ~WalkDone
    /\ Len(pages) < MaxWalk
    /\ \E marker \in {IF call.op = "walk" THEN None ELSE result.next_marker} :
          /\ call' = [NoCall EXCEPT !.op = "v1", !.marker = marker]
          /\ result' = filter_objects(objects, prefix, delimiter, max_keys,
                                      marker, encoding_type)
    /\ pages' = Append(pages, result'.objects)
    /\ UNCHANGED <<kvars, svars, objects, prefix, delimiter, max_keys,
                   encoding_type>>

WalkNext == WalkStart \/ NextPage

SpecWalk == Init /\ [][WalkNext]_vars /\ WF_vars(NextPage)

\* The keys returned so far, page after page.
RECURSIVE Concat(_)
Concat(ps) == IF ps = <<>> THEN <<>> ELSE Head(ps) \o Concat(Tail(ps))

\* The keys of the set that have the prefix.
KeysWithPrefix ==
    {objects[i] : i \in {j \in 1..Len(objects) :
                            startswith(objects[j], PrefixStr)}}

\* C18. Pagination v1 without delimiter: a walk that starts with no marker
\* and passes each page's next_marker on returns keys in strictly ascending
\* order (so none twice), every page before the last holds max_keys keys
\* and the last at most max_keys, the walk ends (after no more pages than
\* there are keys with the prefix, or one page when there is none), and at
\* its end the pages hold exactly the keys that have the prefix.
C18_MarkerWalk ==
    /\ [](LET seen == Concat(pages)
          IN  /\ \A i \in 1..Len(seen), j \in 1..Len(seen) :
                    i < j => StrLess(seen[i], seen[j])
              /\ \A i \in 1..Len(seen) : seen[i] \in KeysWithPrefix
              /\ \A i \in 1..Len(pages) :
                    /\ Len(pages[i]) <= max_keys
                    /\ (i < Len(pages) \/ ~WalkDone) =>
                          Len(pages[i]) = max_keys
              /\ Len(pages) <= IF KeysWithPrefix = {} THEN 1
                               ELSE Cardinality(KeysWithPrefix)
              /\ WalkDone =>
                    {seen[i] : i \in 1..Len(seen)} = KeysWithPrefix)
    /\ (call.op = "walk") ~> WalkDone

\* A finished walk over three keys with a prefix, passed in descending
\* order: a full page of two keys, then a last page of one.
C18_Witness ==
    /\ WalkDone
    /\ Truthy(prefix)
    /\ Len(objects) = 3 /\ StrLess(objects[3], objects[1])
    /\ max_keys = 2
    /\ Len(pages) = 2
    /\ Len(pages[1]) = 2 /\ Len(pages[2]) = 1

\* ------------------------------------------------------------ GitlabStore
\* src/src/boxdrive/stores/gitlab/store.py over the remote repository that
\* src/src/boxdrive/stores/gitlab/client.py talks to.  A bucket name is the
\* key its operations lock in the Keysmith.  The file at path "bucket/key"
\* (_object_path, and _split_path back) is named by the pair <<bucket, key>>.
MaxTreePages == 2

MIN_PER_PAGE == 20
MAX_PAGE == 10000

BucketNames == Keys

\* GitlabStore.placeholder_name: the key of the file that keeps an empty
\* bucket's directory in the repository.
placeholder_name == <<123>>

object_path(bucket, key) == <<bucket, key>>

\* The keys of the blobs under the bucket's directory.
TreeKeys(fs, bucket) == {p[2] : p \in {q \in DOMAIN fs : q[1] = bucket}}

\* hashlib.sha256(...).hexdigest(), as a function that has no collisions.
sha256(content) == [alg |-> "sha256", of |-> content]

get_etag(data) == sha256(data)

\* GitlabClient.head_file: the headers x-gitlab-size and
\* x-gitlab-content-sha256 of the file; the answer for a file that does not
\* exist carries neither, and reading them raises KeyError.
head_file(fs, file_path) ==
    IF file_path \in DOMAIN fs
    THEN [raised |-> "none", gitlab_size |-> Len(fs[file_path]),
          gitlab_content_sha256 |-> sha256(fs[file_path])]
    ELSE [raised |-> "KeyError"]

\* GitlabStore.head_object
GitlabStore_head_object(fs, bucket_name, key) ==
    IF key = placeholder_name THEN [raised |-> "NoSuchKey"]
    ELSE LET head == head_file(fs, object_path(bucket_name, key))
         IN  IF head.raised # "none" THEN [raised |-> head.raised]
             ELSE [raised |-> "none",
                   info |-> [key |-> key, size |-> head.gitlab_size,
                             etag |-> head.gitlab_content_sha256]]

\* The page layouts the tree endpoint can serve for a directory: the blobs
\* in path order, cut into 1..MaxTreePages consecutive pages of at most
\* per_page blobs each.  A page also holds the directory's "tree" entries,
\* which _fetch_object_keys drops, so a page may hold any number of blobs
\* from none to per_page.
TreeLayouts(keys, per_page) ==
    LET L == Len(keys)
        Cut(cuts, n, i) == IF i = 0 THEN 0 ELSE IF i = n THEN L ELSE cuts[i]
        Pages(cuts, n) ==
            [i \in 1..n |-> SubSeq(keys, Cut(cuts, n, i - 1) + 1,
                                   Cut(cuts, n, i))]
    IN  UNION {{Pages(cuts, n) :
                  cuts \in {c \in [1..(n - 1) -> 0..L] :
                               /\ \A i \in 1..(n - 2) : c[i] <= c[i + 1]
                               /\ \A i \in 1..n :
                                     Cut(c, n, i) - Cut(c, n, i - 1)
                                         <= per_page}} :
               n \in 1..MaxTreePages}

\* A closure filter_objects that lets the placeholder through.
GitlabStore_filter_objects_with_placeholder(q, keys) ==
    Do(keys, LAMBDA objs :
        IF q.op = "list_objects"
        THEN filter_objects(objs, q.prefix, q.delimiter, q.max_keys,
                            q.marker, None)
        ELSE filter_objects_v2(objs, q.continuation_token, q.delimiter,
                               q.encoding_type, q.max_keys, q.prefix,
                               q.start_after))

\* The closure filter_objects of list_objects and of list_objects_v2, by the
\* arguments q of the listing: the placeholder is dropped, the rest goes
\* through the list-protocol engine.  list_objects passes no encoding_type.
GitlabStore_filter_objects(q, keys) ==
    Do(SelectSeq(keys, LAMBDA k : k # placeholder_name), LAMBDA objs :
        IF q.op = "list_objects"
        THEN filter_objects(objs, q.prefix, q.delimiter, q.max_keys,
                            q.marker, None)
        ELSE filter_objects_v2(objs, q.continuation_token, q.delimiter,
                               q.encoding_type, q.max_keys, q.prefix,
                               q.start_after))

\* is_enough of delete_bucket (never) and of _collect_objects (the keys
\* read so far already give a truncated listing).
is_enough(q, keys) ==
    IF q.op = "delete_bucket" THEN FALSE
    ELSE GitlabStore_filter_objects(q, keys).is_truncated

\* _fetch_object_keys from page `page` on, with the keys of the pages before
\* it in keys0: the keys read, and whether the last page was read.
RECURSIVE fetch_from(_, _, _, _)
fetch_from(layout, q, page, keys0) ==
    IF page >= MAX_PAGE
    THEN [keys |-> keys0, last_page |-> FALSE]
    ELSE Do(keys0 \o (IF page <= Len(layout) THEN layout[page] ELSE <<>>),
            LAMBDA keys :
                IF page = Len(layout) \/ is_enough(q, keys)
                THEN [keys |-> keys, last_page |-> page = Len(layout)]
                ELSE fetch_from(layout, q, page + 1, keys))

\* _fetch_object_keys.  get_tree raises for a path that has no files.
fetch_object_keys(fs, bucket_name, q, layout) ==
    IF TreeKeys(fs, bucket_name) = {}
    THEN [raised |-> "HTTPStatusError", keys |-> <<>>, last_page |-> FALSE]
    ELSE [raised |-> "none"] @@ fetch_from(layout, q, 1, <<>>)

\* _collect_objects after _fetch_object_keys returned or raised: the
\* engine's choice among the keys read, and one HEAD per content key it
\* returned, under the key it returned.
collect_fetched(fs, bucket_name, q, fetched) ==
    IF fetched.raised # "none"
    THEN [raised |-> fetched.raised, last_page |-> fetched.last_page]
    ELSE Do(GitlabStore_filter_objects(q, fetched.keys), LAMBDA info :
        LET heads == [i \in 1..Len(info.objects) |->
                         GitlabStore_head_object(fs, bucket_name,
                                                 info.objects[i])]
            failed == {i \in 1..Len(heads) : heads[i].raised # "none"}
        IN  IF info.raised
            THEN [raised |-> "AssertionError",
                  last_page |-> fetched.last_page]
            ELSE IF failed # {}
            THEN [raised |->
                      heads[CHOOSE i \in failed :
                                \A j \in failed : i <= j].raised,
                  last_page |-> fetched.last_page]
            ELSE [info EXCEPT
                      !.raised = "none",
                      !.objects = [i \in 1..Len(heads) |-> heads[i].info]]
                 @@ [last_page |-> fetched.last_page])

\* _collect_objects
collect_objects(fs, bucket_name, q, layout) ==
    collect_fetched(fs, bucket_name, q,
                    fetch_object_keys(fs, bucket_name, q, layout))

\* GitlabStore.list_objects, inside `async with self.keysmith.lock(...)`.
GitlabStore_list_objects(fs, bucket_name, pfx, delim, n, marker, layout) ==
    collect_objects(fs, bucket_name,
                    [op |-> "list_objects", prefix |-> pfx,
                     delimiter |-> delim, max_keys |-> n, marker |-> marker],
                    layout)

\* per_page of a listing
per_page(n) == IF n > MIN_PER_PAGE THEN n ELSE MIN_PER_PAGE

\* ------------------------------------------- one listing of a GitLab bucket
\* The task that calls the store when one call is made at a time.
Caller == 1

\* The branch holds one bucket, the one named like the caller: its
\* placeholder or not, at most MaxObjects files in all, all of them empty.
RemoteTrees ==
    {[p \in {object_path(b, k) : k \in ks} |-> <<>>] :
        b \in {Caller},
        ks \in {S \in SUBSET KeyUniverse :
                   /\ S # {}
                   /\ Cardinality(S) <= MaxObjects}}

GitlabListInit ==
    /\ NewKeysmith
    /\ NoListing
    /\ store = "GitlabStore"
    /\ buckets = <<>>
    /\ files \in RemoteTrees
    /\ now = 0
    /\ ret = NoRet
    /\ put_ret = [p \in {} |-> None]
    /\ job = [t \in Tasks |-> Idle]

\* The buckets listed: those that exist on the remote.
ListedBuckets == {b \in BucketNames : TreeKeys(files, b) # {}}

\* The prefix, delimiter and cursor arguments of the listings made: None or
\* a string that is not empty.
Affixes == OptionalStrings \ {<<>>}

Markers == Cursors \ {<<>>}

\* The start_after arguments of the v2 listings made.
StartAfters == {None, <<97>>}


\* A listing was made of a bucket that exists on the remote.
Listed ==
    /\ ret.op \in {"list_objects", "list_objects_v2"}
    /\ TreeKeys(files, ret.bucket_name) # {}

\* What the list-protocol engine returns for all the keys of the bucket
\* but the placeholder, under the arguments of the listing made.
ListFilterOfAll ==
    LET all == sorted_set(TreeKeys(files, ret.bucket_name)
                              \ {placeholder_name})
    IN  IF ret.op = "list_objects"
        THEN filter_objects(all, ret.prefix, ret.delimiter, ret.max_keys,
                            ret.marker, None)
        ELSE filter_objects_v2(all, ret.continuation_token, ret.delimiter,
                               ret.encoding_type, ret.max_keys, ret.prefix,
                               ret.start_after)

\* The listing returned what the engine returns for all the keys.
SameAsListFilter ==
    /\ ret.value.raised = "none"
    /\ [i \in 1..Len(ret.value.objects) |-> ret.value.objects[i].key]
           = ListFilterOfAll.objects
    /\ ret.value.common_prefixes = ListFilterOfAll.common_prefixes
    /\ ret.value.is_truncated = ListFilterOfAll.is_truncated
    /\ ret.op = "list_objects" =>
           ret.value.next_marker = ListFilterOfAll.next_marker

\* C21. Every listing of a bucket by GitlabStore, v1 or v2, returns the
\* content keys, the common prefixes, is_truncated and (v1) next_marker that
\* the engine returns for the complete set of the bucket's keys without the
\* placeholder, whatever the page layout and wherever the fetch stopped.
C21_EarlyStopSafe == Listed => SameAsListFilter

\* The same for the listings that do not ask for url encoding.
C21_EarlyStopSafeUnencoded ==
    (Listed /\ (ret.op = "list_objects_v2" => ret.encoding_type # url))
        => SameAsListFilter

\* A listing that stopped before the last page and returned a content key
\* and a common prefix.
C21_Witness ==
    /\ Listed
    /\ ret.value.raised = "none"
    /\ ~ret.value.last_page
    /\ ret.value.objects # <<>>
    /\ ret.value.common_prefixes # <<>>

\* A v2 listing with url encoding whose HEAD of a returned key failed.
C21_HeadOfEncodedKey ==
    /\ Listed
    /\ ret.op = "list_objects_v2"
    /\ ret.encoding_type = url
    /\ ret.value.raised = "KeyError"

\* ------------------------------------------------- the remote's file calls
\* Object bodies: byte strings of at most MaxData bytes.
MaxData == 1

Bytes == {0, 255}

Datas == UNION {[1..n -> Bytes] : n \in 0..MaxData}

\* The character of the base64 alphabet that stands for six bits.
B64Char(i) ==
    IF i < 26 THEN 65 + i
    ELSE IF i < 52 THEN 97 + (i - 26)
    ELSE IF i < 62 THEN 48 + (i - 52)
    ELSE IF i = 62 THEN 43 ELSE 47

B64Index(c) == CHOOSE i \in 0..63 : B64Char(i) = c

\* base64.b64encode(data).decode("utf-8"): three bytes to four characters,
\* the last group padded with "=".
RECURSIVE b64encode(_)
b64encode(data) ==
    IF data = <<>> THEN <<>>
    ELSE IF Len(data) = 1
    THEN <<B64Char(data[1] \div 4), B64Char((data[1] % 4) * 16), 61, 61>>
    ELSE IF Len(data) = 2
    THEN <<B64Char(data[1] \div 4),
           B64Char((data[1] % 4) * 16 + data[2] \div 16),
           B64Char((data[2] % 16) * 4), 61>>
    ELSE <<B64Char(data[1] \div 4),
           B64Char((data[1] % 4) * 16 + data[2] \div 16),
           B64Char((data[2] % 16) * 4 + data[3] \div 64),
           B64Char(data[3] % 64)>> \o b64encode(SubSeq(data, 4, Len(data)))

\* base64.b64decode(content), for content that b64encode produced.
RECURSIVE b64decode(_)
b64decode(content) ==
    IF Len(content) < 4 THEN <<>>
    ELSE LET a == B64Index(content[1])
             b == B64Index(content[2])
             rest == b64decode(SubSeq(content, 5, Len(content)))
         IN  IF content[3] = 61 THEN <<a * 4 + b \div 16>>
             ELSE LET c == B64Index(content[3])
                  IN  IF content[4] = 61
                      THEN <<a * 4 + b \div 16, (b % 16) * 16 + c \div 4>>
                      ELSE <<a * 4 + b \div 16, (b % 16) * 16 + c \div 4,
                             (c % 4) * 64 + B64Index(content[4])>> \o rest

\* The fields DeleteFile requires (client.py, `ref: str`; every other field
\* has a default, and CreateFile adds only fields with defaults).
DeleteFile_required == {"ref"}

\* BaseModel.__init__: a required field that is not passed raises
\* ValidationError; a keyword that names no field is ignored.
Validates(required, passed) == required \subseteq passed

\* GitlabClient.create_file and the remote's answer: 201 and the file is
\* committed with the content as its text (no `encoding` is passed), 400
\* when a file of that path exists, 500 when the remote is down.
create_file(fs, file_path, content, down) ==
    IF down THEN [status_code |-> 500, files |-> fs]
    ELSE IF file_path \in DOMAIN fs THEN [status_code |-> 400, files |-> fs]
    ELSE [status_code |-> 201, files |-> (file_path :> content) @@ fs]

\* GitlabClient.delete_file and the remote's answer: 204 and the file is
\* gone, 400 when there is no such file, 500 when the remote is down.
delete_file(fs, file_path, down) ==
    IF down THEN [status_code |-> 500, files |-> fs]
    ELSE IF file_path \notin DOMAIN fs THEN [status_code |-> 400, files |-> fs]
    ELSE [status_code |-> 204,
          files |-> [p \in DOMAIN fs \ {file_path} |-> fs[p]]]

\* GitlabClient.get_file and the remote's answer: 200 with the file's bytes
\* in base64, 404 when there is no such file, 500 when the remote is down.
get_file(fs, file_path, down) ==
    IF down THEN [status_code |-> 500]
    ELSE IF file_path \notin DOMAIN fs THEN [status_code |-> 404]
    ELSE [status_code |-> 200, content |-> b64encode(fs[file_path])]

\* ----------------------------------------- GitlabStore, the other handlers
\* Each handler is given the files of the branch and what the remote does
\* (`down`: it answers 500), and returns the files it leaves, what it
\* raised and what it returned.

\* GitlabStore.list_buckets: the directories at the top of the tree.
GitlabStore_list_buckets(fs) == {p[1] : p \in DOMAIN fs}

\* A create_bucket that takes the remote's 400 for success.
GitlabStore_create_bucket_quiet(fs, bucket_name, down) ==
    LET resp == create_file(fs, object_path(bucket_name, placeholder_name),
                            <<>>, down)
    IN  [files |-> resp.files,
         raised |-> IF resp.status_code \in {201, 400} THEN "none"
                    ELSE "HTTPStatusError"]

\* GitlabStore.create_bucket
GitlabStore_create_bucket(fs, bucket_name, down) ==
    LET resp == create_file(fs, object_path(bucket_name, placeholder_name),
                            <<>>, down)
    IN  [files |-> resp.files,
         raised |-> IF resp.status_code = 201 THEN "none"
                    ELSE IF resp.status_code = 400 THEN "BucketAlreadyExists"
                    ELSE "HTTPStatusError"]

\* GitlabStore.get_object
GitlabStore_get_object(fs, bucket_name, key, down) ==
    IF key = placeholder_name THEN [raised |-> "NoSuchKey"]
    ELSE LET resp == get_file(fs, object_path(bucket_name, key), down)
         IN  IF resp.status_code = 200
             THEN LET data == b64decode(resp.content)
                  IN  [raised |-> "none", data |-> data,
                       info |-> [key |-> key, size |-> Len(data),
                                 etag |-> get_etag(data)]]
             ELSE IF resp.status_code = 404 THEN [raised |-> "NoSuchKey"]
             ELSE [raised |-> "HTTPStatusError"]

\* GitlabStore.put_object
GitlabStore_put_object(fs, bucket_name, key, data, down) ==
    IF key = placeholder_name
    THEN [files |-> fs, raised |-> "ValueError", guarded |-> FALSE]
    ELSE LET resp == create_file(fs, object_path(bucket_name, key),
                                 b64encode(data), down)
         IN  IF resp.status_code = 201
             THEN [files |-> resp.files, raised |-> "none", guarded |-> TRUE,
                   info |-> [key |-> key, size |-> Len(data),
                             etag |-> get_etag(data)]]
             ELSE [files |-> resp.files, raised |-> "HTTPStatusError",
                   guarded |-> TRUE]

\* GitlabStore._delete_object: DeleteFile is built from `branch` and
\* `commit_message`, then the file is deleted and the status examined.
GitlabStore__delete_object(fs, bucket_name, key, down) ==
    IF ~Validates(DeleteFile_required, {"branch", "commit_message"})
    THEN [files |-> fs, raised |-> "ValidationError", requests |-> 0]
    ELSE LET resp == delete_file(fs, object_path(bucket_name, key), down)
         IN  [files |-> resp.files,
              raised |-> IF resp.status_code \in {204, 400} THEN "none"
                         ELSE "HTTPStatusError",
              requests |-> 1]

\* GitlabStore.delete_object
GitlabStore_delete_object(fs, bucket_name, key, down) ==
    IF key = placeholder_name
    THEN [files |-> fs, raised |-> "none", requests |-> 0,
          guarded |-> FALSE]
    ELSE GitlabStore__delete_object(fs, bucket_name, key, down)
             @@ [guarded |-> TRUE]

\* ------------------------------------------------------------ InMemoryStore
\* A Python dict is the sequence of its entries in insertion order.
DictHas(d, k) == \E i \in 1..Len(d) : d[i].key = k

DictGet(d, k) == d[CHOOSE i \in 1..Len(d) : d[i].key = k].value

\* d[k] = v: an entry that exists keeps its place.
DictSet(d, k, v) ==
    IF DictHas(d, k)
    THEN [i \in 1..Len(d) |->
             IF d[i].key = k THEN [key |-> k, value |-> v] ELSE d[i]]
    ELSE Append(d, [key |-> k, value |-> v])

\* del d[k]
DictDel(d, k) == SelectSeq(d, LAMBDA e : e.key # k)

DictKeys(d) == [i \in 1..Len(d) |-> d[i].key]

\* Python's None where an Object or an ObjectMetadata is expected.
NoObject == [none |-> TRUE]

\* hashlib.md5(data).hexdigest(): a digest that tells any two bodies apart.
md5(data) == [alg |-> "md5", of |-> data]

\* Each handler is given _buckets and the clock, and returns the _buckets it
\* leaves, the clock after the datetime.now() calls it made, what it raised
\* and what it returned.

\* InMemoryStore.list_buckets
InMemoryStore_list_buckets(bs) ==
    [i \in 1..Len(bs) |->
        [name |-> bs[i].value.name,
         creation_date |-> bs[i].value.creation_date]]

\* InMemoryStore.create_bucket
InMemoryStore_create_bucket(bs, bucket_name, clock) ==
    IF DictHas(bs, bucket_name)
    THEN [buckets |-> bs, now |-> clock, raised |-> "BucketAlreadyExists"]
    ELSE [buckets |-> DictSet(bs, bucket_name,
                              [name |-> bucket_name, creation_date |-> clock,
                               objects |-> <<>>]),
          now |-> clock + 1, raised |-> "none"]

\* A delete_bucket that empties the bucket and keeps it.
InMemoryStore_delete_bucket_emptied(bs, bucket_name) ==
    IF ~DictHas(bs, bucket_name)
    THEN [buckets |-> bs, raised |-> "NoSuchBucket"]
    ELSE [buckets |-> DictSet(bs, bucket_name,
                              [DictGet(bs, bucket_name)
                                   EXCEPT !.objects = <<>>]),
          raised |-> "none"]

\* InMemoryStore.delete_bucket
InMemoryStore_delete_bucket(bs, bucket_name) ==
    IF ~DictHas(bs, bucket_name)
    THEN [buckets |-> bs, raised |-> "NoSuchBucket"]
    ELSE [buckets |-> DictDel(bs, bucket_name), raised |-> "none"]

\* `x is None`, for an x that is None or an integer.
is_none(x) == ToString(x) = ToString(None)

\* An argument that is None or an integer, as a sequence: none or one
\* integer.
Boxed(x) == IF is_none(x) THEN <<>> ELSE <<x>>

\* keys[:n]
slice_to(keys, n) ==
    IF n >= 0
    THEN SubSeq(keys, 1, IF n < Len(keys) THEN n ELSE Len(keys))
    ELSE SubSeq(keys, 1, IF Len(keys) + n > 0 THEN Len(keys) + n ELSE 0)

\* The keys that list_objects goes through: those of the bucket in
\* insertion order, of the prefix when one is given and not empty, cut to
\* max_keys (limit, Boxed) when one is given and not 0.
InMemoryStore_listed_keys(bucket, pfx, limit) ==
    LET keys == DictKeys(bucket.objects)
        keys1 == IF Truthy(pfx)
                 THEN SelectSeq(keys, LAMBDA k : startswith(k, pfx))
                 ELSE keys
    IN  IF limit = <<>> THEN keys1
        ELSE IF limit[1] = 0 THEN keys1
        ELSE slice_to(keys1, limit[1])

\* InMemoryStore.list_objects, iterated to its end with nothing else run
\* between two of its items.
InMemoryStore_list_objects(bs, bucket_name, pfx, n) ==
    IF ~DictHas(bs, bucket_name) THEN [raised |-> "NoSuchBucket"]
    ELSE LET bucket == DictGet(bs, bucket_name)
             keys == InMemoryStore_listed_keys(bucket, pfx, Boxed(n))
         IN  [raised |-> "none",
              objects |-> [i \in 1..Len(keys) |->
                              DictGet(bucket.objects, keys[i]).metadata]]

\* InMemoryStore.get_object
InMemoryStore_get_object(bs, bucket_name, key) ==
    IF ~DictHas(bs, bucket_name) THEN NoObject
    ELSE LET bucket == DictGet(bs, bucket_name)
         IN  IF DictHas(bucket.objects, key)
             THEN DictGet(bucket.objects, key) ELSE NoObject

\* InMemoryStore.put_object
InMemoryStore_put_object(bs, bucket_name, key, data, clock) ==
    Do(IF ~DictHas(bs, bucket_name)
       THEN InMemoryStore_create_bucket(bs, bucket_name, clock)
       ELSE [buckets |-> bs, now |-> clock, raised |-> "none"],
       LAMBDA made :
           LET bucket == DictGet(made.buckets, bucket_name)
               etag == md5(data)
               metadata == [key |-> key, size |-> Len(data),
                            last_modified |-> made.now, etag |-> etag]
               object == [data |-> data, metadata |-> metadata]
           IN  [buckets |->
                    DictSet(made.buckets, bucket_name,
                            [bucket EXCEPT
                                !.objects = DictSet(@, key, object)]),
                now |-> made.now + 1, raised |-> "none", etag |-> etag])

\* InMemoryStore.delete_object
InMemoryStore_delete_object(bs, bucket_name, key) ==
    IF ~DictHas(bs, bucket_name)
    THEN [buckets |-> bs, raised |-> "NoSuchBucket"]
    ELSE LET bucket == DictGet(bs, bucket_name)
         IN  IF ~DictHas(bucket.objects, key)
             THEN [buckets |-> bs, raised |-> "NoSuchKey"]
             ELSE [buckets |->
                       DictSet(bs, bucket_name,
                               [bucket EXCEPT !.objects = DictDel(@, key)]),
                   raised |-> "none"]

\* InMemoryStore.head_object
InMemoryStore_head_object(bs, bucket_name, key) ==
    IF ~DictHas(bs, bucket_name) THEN NoObject
    ELSE LET bucket == DictGet(bs, bucket_name)
         IN  IF DictHas(bucket.objects, key)
             THEN DictGet(bucket.objects, key).metadata ELSE NoObject

\* ------------------------------------------------- the S3 facade's deletes
HTTP_204_NO_CONTENT == 204

\* An S3.delete_object that lets NoSuchKey through.
S3_delete_object_strict(raised) ==
    IF raised \in {"none", "NoSuchBucket"}
    THEN [raised |-> "none", status_code |-> HTTP_204_NO_CONTENT]
    ELSE [raised |-> raised]

\* S3.delete_object, given what store.delete_object raised: NoSuchBucket
\* and NoSuchKey are logged, anything else goes on to the caller.
S3_delete_object(raised) ==
    IF raised \in {"none", "NoSuchBucket", "NoSuchKey"}
    THEN [raised |-> "none", status_code |-> HTTP_204_NO_CONTENT]
    ELSE [raised |-> raised]

\* S3.delete_bucket, given what store.delete_bucket raised.
S3_delete_bucket(raised) ==
    IF raised \in {"none", "NoSuchBucket"}
    THEN [raised |-> "none", status_code |-> HTTP_204_NO_CONTENT]
    ELSE [raised |-> raised]

\* ------------------------------------------------- GitlabStore, call by call
\* Tasks of one event loop call the operations of one GitlabStore.  A step
\* is the code a task runs between two suspension points: the call up to
\* its wait for the gate, the mutex or the remote's answer, and each answer
\* of the remote with what the task does next.  job[t].at says what the
\* task waits for: "lock", or the answer to a "root", "file", "tree" or
\* "heads" request.  `ret` is what the last call that ended returned, and
\* none from the start of a call to its end.
\* A listing at "heads" waits for asyncio.gather, and the callbacks of the
\* event loop between its suspension and its resumption are steps of their
\* own: `starting` are the head_object tasks gather made that have not run,
\* `pending` the HEADs sent and unanswered, `ended` the tasks whose done
\* callback is queued, `counted` the tasks gather has counted, `gather` the
\* state of its future ("pending", "result" or the exception).  `left` are
\* the head_object tasks that listings of the task which raised left
\* behind; they outlive the call.
Listings == {"list_objects", "list_objects_v2"}

BATCH_SIZE == 20

\* The most HEADs that the task's earlier listings left behind when it calls
\* a listing.
MaxLeft == 1

MAX_KEYS == 1000

\* A batch that holds every key left.
batched_unbounded(keys, issued) == (issued + 1)..Len(keys)

\* itertools.batched(keys, n=BATCH_SIZE): the batch after `issued` keys, as
\* the indices of its keys.
batched(keys, issued) ==
    (issued + 1)..(IF issued + BATCH_SIZE < Len(keys)
                   THEN issued + BATCH_SIZE ELSE Len(keys))

Forget(h, paths) == [p \in DOMAIN h \ paths |-> h[p]]

\* The tree the remote serves is its number of pages (x-total-pages) and
\* the blobs of its first pages; the pages after them hold "tree" entries
\* only, which _fetch_object_keys drops.
NoLayout == [total_pages |-> 0, pages |-> <<>>]

\* The local `bucket` of the generator of InMemoryStore.list_objects: not
\* bound yet (NoBucket), the Bucket that _buckets holds under the name
\* (BoundBucket), or, once that Bucket was deleted from _buckets, the
\* Bucket the generator alone still holds, with its objects.
NoBucket == [live |-> FALSE, objects |-> <<>>]

BoundBucket == [live |-> TRUE, objects |-> <<>>]

\* The blobs of page p.
PageBlobs(layout, p) ==
    IF p <= Len(layout.pages) THEN layout.pages[p] ELSE <<>>

\* A call of the operation: facade says that it is made through the S3
\* facade.
NewJob(op, bucket_name, key, data, q) ==
    [op |-> op, bucket_name |-> bucket_name, key |-> key, data |-> data,
     q |-> q, facade |-> FALSE, at |-> "lock", page |-> 1,
     layout |-> NoLayout, keys |-> <<>>, last_page |-> FALSE,
     info |-> [raised |-> FALSE], heads |-> <<>>, pending |-> {},
     issued |-> 0, objects |-> <<>>, todo |-> <<>>, requests |-> 0,
     down |-> FALSE, bucket |-> NoBucket, batch |-> {}, starting |-> <<>>,
     ended |-> <<>>, counted |-> 0, gather |-> "none", left |-> <<>>]

\* The tree requests the call made, the number of pages the remote
\* reported and the keys read.
Fetched(j) ==
    [tree_requests |-> j.page, total_pages |-> j.layout.total_pages,
     keys |-> j.keys]

\* What the call returns to its caller: the store's outcome, or the S3
\* facade's answer to it; for a listing also the keys of the filtered page
\* and the keys a HEAD was issued for.
Returned(j, down, value) ==
    IF j.op \in Listings
    THEN j.q @@ [bucket_name |-> j.bucket_name, value |-> value,
                 fetch |-> Fetched(j),
                 page_keys |-> IF "objects" \in DOMAIN j.info
                               THEN j.info.objects ELSE <<>>,
                 head_keys |-> SubSeq(j.heads, 1, j.issued)]
    ELSE IF j.op = "list_buckets"
    THEN [op |-> j.op, value |-> value]
    ELSE IF j.op = "create_bucket"
    THEN [op |-> j.op, bucket_name |-> j.bucket_name, down |-> down,
          value |-> value]
    ELSE IF j.op = "delete_bucket"
    THEN IF j.facade
         THEN [op |-> "S3.delete_bucket", bucket_name |-> j.bucket_name,
               down |-> down, store_raised |-> value.raised,
               value |-> S3_delete_bucket(value.raised),
               fetch |-> Fetched(j)]
         ELSE [op |-> j.op, bucket_name |-> j.bucket_name, down |-> down,
               value |-> value, fetch |-> Fetched(j)]
    ELSE IF j.op = "delete_object"
    THEN IF j.facade
         THEN [op |-> "S3.delete_object", bucket_name |-> j.bucket_name,
               key |-> j.key, down |-> down, store_raised |-> value.raised,
               value |-> S3_delete_object(value.raised)]
         ELSE [op |-> j.op, bucket_name |-> j.bucket_name, key |-> j.key,
               down |-> down, value |-> value]
    ELSE IF j.op = "put_object"
    THEN [op |-> j.op, bucket_name |-> j.bucket_name, key |-> j.key,
          data |-> j.data, down |-> down, value |-> value]
    ELSE IF j.op = "get_object"
    THEN [op |-> j.op, bucket_name |-> j.bucket_name, key |-> j.key,
          down |-> down, value |-> value]
    ELSE [op |-> j.op, bucket_name |-> j.bucket_name, key |-> j.key,
          value |-> value]

\* The bodies and ETags of the last puts, once the call has left the files
\* fs1: a put that returned is recorded, a file that is gone is forgotten.
Remembered(j, value, fs1) ==
    IF j.op = "put_object" /\ value.raised = "none"
    THEN (object_path(j.bucket_name, j.key) :>
              [data |-> j.data, etag |-> value.etag]) @@ put_ret
    ELSE IF j.op = "delete_object"
    THEN Forget(put_ret, {object_path(j.bucket_name, j.key)} \ DOMAIN fs1)
    ELSE IF j.op = "delete_bucket"
    THEN Forget(put_ret, {p \in DOMAIN put_ret : p[1] = j.bucket_name}
                             \ DOMAIN fs1)
    ELSE put_ret

\* The operation of task t is over: it returned or raised `value`, and
\* leaves the files fs1.
Over(t, j, down, value, fs1) ==
    /\ job' = [job EXCEPT ![t] = [Idle EXCEPT !.left = j.left]]
    /\ ret' = Returned(j, down, value)
    /\ files' = fs1
    /\ put_ret' = Remembered(j, value, fs1)

\* The operation of task t goes on as j1 says.
GoOn(t, j1) ==
    /\ job' = [job EXCEPT ![t] = j1]
    /\ ret' = NoRet
    /\ UNCHANGED <<files, put_ret>>

\* What put_object returns or raises, by GitlabStore_put_object's r.
PutValue(r) ==
    IF r.raised = "none"
    THEN [raised |-> "none", etag |-> r.info.etag, size |-> r.info.size]
    ELSE [raised |-> r.raised]

\* `await asyncio.gather(*coros)` with the head_object coroutines of the
\* next batch of listing j: gather makes a task of each, in the order of
\* the keys, and the listing waits for gather's future.  No task has run
\* yet, and no HEAD is sent.
gather(j) ==
    [j EXCEPT !.at = "heads",
              !.batch = batched(j.heads, j.issued),
              !.starting = [k \in 1..Cardinality(batched(j.heads, j.issued))
                               |-> j.issued + k],
              !.pending = {},
              !.ended = <<>>,
              !.counted = 0,
              !.gather = "pending",
              !.issued = @ + Cardinality(batched(j.heads, j.issued))]

\* The head_object tasks of listing j that have not ended, once gather
\* raised: gather cancels none of them.  Each keeps the HEAD it sent (or
\* has still to send it) while the listing is over.
left_behind(j) ==
    LET rest == SelectSeq([i \in 1..Len(j.heads) |-> i],
                          LAMBDA i : \/ i \in j.pending
                                     \/ \E n \in 1..Len(j.starting) :
                                           j.starting[n] = i)
    IN  [k \in 1..Len(rest) |-> [bucket_name |-> j.bucket_name,
                                 key |-> j.heads[rest[k]],
                                 sent |-> rest[k] \in j.pending]]

\* Sequence q without its k-th element.
Dropped(q, k) == SubSeq(q, 1, k - 1) \o SubSeq(q, k + 1, Len(q))

\* What a listing returns once the last HEAD is answered.
ListingValue(j, answered) ==
    [j.info EXCEPT !.raised = "none",
                   !.objects = [k \in 1..Len(j.heads) |-> answered[k]]]
        @@ [last_page |-> j.last_page]

\* A helper that takes the bucket's guard again.
helper_locks_again(s, t, bucket_name) == lock(s, t, bucket_name)

\* The Keysmith after the helpers a guarded body calls (_delete_object,
\* _collect_objects, _fetch_object_keys, head_object): none of them calls
\* the Keysmith.
guarded_helper(s, t, bucket_name) == s

\* delete_bucket's loop with the keys `todo` left to delete, the Keysmith in
\* state s and the files fs: _delete_object of the next key raises when
\* DeleteFile cannot be built, or makes its request.
DeleteNext(s, t, j, todo, fs) ==
    IF todo = <<>>
    THEN /\ Locking(lock_exit(s, t, FALSE), "other")
         /\ Over(t, j, j.down, [raised |-> "none", requests |-> j.requests],
                 fs)
    ELSE \E r \in {GitlabStore__delete_object(fs, j.bucket_name, Head(todo),
                                              FALSE)} :
            IF r.requests = 0
            THEN /\ Locking(lock_exit(s, t, r.raised # "none"), "other")
                 /\ Over(t, j, j.down,
                         [raised |-> r.raised, requests |-> j.requests], fs)
            ELSE /\ Locking(guarded_helper(s, t, j.bucket_name), "other")
                 /\ job' = [job EXCEPT ![t] =
                               [j EXCEPT !.at = "file", !.todo = todo]]
                 /\ ret' = NoRet
                 /\ files' = fs
                 /\ put_ret' = put_ret

\* Task t has entered the body of `async with self.keysmith.lock(...)`
\* with the Keysmith in state s, and runs to its first request.
\* _delete_object makes none when building DeleteFile raises.
EnterBody(s, t, j) ==
    IF j.op = "delete_object"
    THEN \E r \in {GitlabStore_delete_object(files, j.bucket_name, j.key,
                                             FALSE)} :
            IF r.requests = 0
            THEN /\ Locking(lock_exit(s, t, r.raised # "none"), "other")
                 /\ Over(t, j, FALSE,
                         [raised |-> r.raised, requests |-> r.requests],
                         files)
            ELSE /\ Locking(guarded_helper(s, t, j.bucket_name), "other")
                 /\ GoOn(t, [j EXCEPT !.at = "file"])
    ELSE /\ Locking(guarded_helper(s, t, j.bucket_name), "other")
         /\ GoOn(t, [j EXCEPT !.at = IF j.op \in {"create_bucket",
                                                  "put_object"}
                                     THEN "file" ELSE "tree"])

\* Task t calls an operation: everything up to its first suspension.
\* get_object, head_object, put_object and delete_object of the placeholder
\* key return or raise at once; list_buckets, get_object and head_object
\* make their request without a guard; the others ask for the bucket's
\* guard.
StartJob(t, j0) ==
    /\ err = "ok"
    /\ job[t].op = "none"
    /\ pc[t] = "run"
    /\ stack[t] = <<>>
    /\ \E j \in {[j0 EXCEPT !.left = job[t].left]} :
       IF j.op \in {"get_object", "head_object", "put_object",
                    "delete_object"} /\ j.key = placeholder_name
       THEN /\ Over(t, j, FALSE,
                    IF j.op = "get_object"
                    THEN GitlabStore_get_object(files, j.bucket_name, j.key,
                                                FALSE)
                    ELSE IF j.op = "head_object"
                    THEN GitlabStore_head_object(files, j.bucket_name, j.key)
                    ELSE IF j.op = "put_object"
                    THEN PutValue(GitlabStore_put_object(
                                      files, j.bucket_name, j.key, j.data,
                                      FALSE))
                    ELSE Do(GitlabStore_delete_object(
                                files, j.bucket_name, j.key, FALSE),
                            LAMBDA r : [raised |-> r.raised,
                                        requests |-> r.requests]),
                    files)
            /\ UNCHANGED kvars
       ELSE IF j.op \in {"list_buckets", "get_object", "head_object"}
       THEN /\ GoOn(t, IF j.op = "list_buckets"
                       THEN [j EXCEPT !.at = "root"]
                       ELSE IF j.op = "get_object"
                       THEN [j EXCEPT !.at = "file"]
                       ELSE [j EXCEPT !.at = "heads", !.heads = <<j.key>>,
                                      !.pending = {1}, !.issued = 1])
            /\ UNCHANGED kvars
       ELSE \E s1 \in {lock(St, t, j.bucket_name)} :
               IF s1.pc[t] = "run"
               THEN EnterBody(s1, t, j)
               ELSE /\ Locking(s1, "other")
                    /\ GoOn(t, j)
    /\ UNCHANGED <<lvars, store, buckets, now>>

\* The gate or the mutex task t waits for has been handed to it.
ResumeJob(t) ==
    /\ err = "ok"
    /\ job[t].op # "none"
    /\ Suspended(t)
    /\ fut[t] = "done"
    /\ ~must_cancel[t]
    /\ \E s1 \in {resume(St, t)} :
          IF s1.pc[t] = "run"
          THEN EnterBody(s1, t, job[t])
          ELSE /\ Locking(s1, "other")
               /\ UNCHANGED <<job, files, ret, put_ret>>
    /\ UNCHANGED <<lvars, store, buckets, now>>

\* The remote answers list_buckets' request for the top of the tree.
ServeRoot(t) ==
    /\ err = "ok"
    /\ job[t].op = "list_buckets"
    /\ job[t].at = "root"
    /\ Over(t, job[t], FALSE,
            [raised |-> "none", buckets |-> GitlabStore_list_buckets(files)],
            files)
    /\ UNCHANGED <<kvars, lvars, store, buckets, now>>

\* The remote answers the file request of task t (`down`: with 500).
\* create_bucket and put_object leave the `async with` and then look at the
\* status; _delete_object looks at it inside; get_object holds no guard.
ServeFile(t, down) ==
    /\ err = "ok"
    /\ job[t].op \in {"create_bucket", "put_object", "delete_object",
                      "delete_bucket", "get_object"}
    /\ job[t].at = "file"
    /\ \E j \in {job[t]} :
          IF j.op = "create_bucket"
          THEN \E r \in {GitlabStore_create_bucket(files, j.bucket_name,
                                                   down)} :
                  /\ Locking(lock_exit(St, t, FALSE), "other")
                  /\ Over(t, j, down, [raised |-> r.raised], r.files)
          ELSE IF j.op = "put_object"
          THEN \E r \in {GitlabStore_put_object(files, j.bucket_name, j.key,
                                                j.data, down)} :
                  /\ Locking(lock_exit(St, t, FALSE), "other")
                  /\ Over(t, j, down, PutValue(r), r.files)
          ELSE IF j.op = "delete_object"
          THEN \E r \in {GitlabStore_delete_object(files, j.bucket_name,
                                                   j.key, down)} :
                  /\ Locking(lock_exit(St, t, r.raised # "none"), "other")
                  /\ Over(t, j, down,
                          [raised |-> r.raised, requests |-> r.requests],
                          r.files)
          ELSE IF j.op = "get_object"
          THEN /\ Over(t, j, down,
                       GitlabStore_get_object(files, j.bucket_name, j.key,
                                              down),
                       files)
               /\ UNCHANGED kvars
          ELSE \E r \in {GitlabStore__delete_object(files, j.bucket_name,
                                                    Head(j.todo), down)} :
               \E j1 \in {[j EXCEPT !.requests = @ + r.requests,
                                    !.down = @ \/ down]} :
                  IF r.raised # "none"
                  THEN /\ Locking(lock_exit(St, t, TRUE), "other")
                       /\ Over(t, j1, j1.down,
                               [raised |-> r.raised,
                                requests |-> j1.requests], r.files)
                  ELSE DeleteNext(St, t, j1, Tail(j.todo), r.files)
    /\ UNCHANGED <<lvars, store, buckets, now>>

\* Task t waits for the answer to a tree-page request.
Fetching(t) == job[t].op # "none" /\ job[t].at = "tree"

\* The keys of the bucket's files as the remote lists them, and the
\* per_page that task t asks for.
ListedKeys(t) == sorted_set(TreeKeys(files, job[t].bucket_name))

PerPage(t) ==
    IF job[t].op = "delete_bucket" THEN MAX_KEYS
    ELSE per_page(job[t].q.max_keys)

\* The trees the remote can serve to the tree request task t waits for:
\* chosen with the first page and kept for the pages after it; every page
\* of them holds blobs.
LayoutsOf(t) ==
    IF ~Fetching(t) THEN {}
    ELSE IF job[t].page > 1 THEN {job[t].layout}
    ELSE {[total_pages |-> Len(blobs), pages |-> blobs] :
             blobs \in TreeLayouts(ListedKeys(t), PerPage(t))}

\* The loop of _fetch_object_keys stops after the page just read into j:
\* it is the last one, the keys read are enough, or the next page would be
\* page MAX_PAGE.
fetch_stops(j) ==
    \/ j.last_page
    \/ is_enough(j.q, j.keys)
    \/ j.page + 1 >= MAX_PAGE

\* The remote answers the tree-page request of task t with the page of the
\* layout: _fetch_object_keys goes on to the next page or returns, and the
\* caller (delete_bucket's loop, or _collect_objects up to its first batch
\* of HEADs) goes on.
ServeTree(t, layout) ==
    /\ err = "ok"
    /\ Fetching(t)
    /\ job[t].page > 1 => layout = job[t].layout
    /\ \E j \in {job[t]} :
          IF TreeKeys(files, j.bucket_name) = {}
          THEN /\ Locking(lock_exit(St, t, TRUE), "other")
               /\ Over(t, j, FALSE,
                       IF j.op = "delete_bucket"
                       THEN [raised |-> "HTTPStatusError", requests |-> 0]
                       ELSE [raised |-> "HTTPStatusError",
                             last_page |-> FALSE],
                       files)
          ELSE \E j1 \in {[j EXCEPT
                              !.layout = layout,
                              !.keys = @ \o PageBlobs(layout, j.page),
                              !.last_page = j.page = layout.total_pages]} :
                  IF ~fetch_stops(j1)
                  THEN /\ Locking(St, "other")
                       /\ GoOn(t, [j1 EXCEPT !.page = @ + 1])
                  ELSE IF j.op = "delete_bucket"
                  THEN DeleteNext(St, t, j1, j1.keys, files)
                  ELSE \E info \in {GitlabStore_filter_objects(j.q,
                                                               j1.keys)} :
                          IF info.raised
                          THEN /\ Locking(lock_exit(St, t, TRUE), "other")
                               /\ Over(t, j1, FALSE,
                                       [raised |-> "AssertionError",
                                        last_page |-> j1.last_page], files)
                          ELSE IF info.objects = <<>>
                          THEN /\ Locking(lock_exit(St, t, FALSE), "other")
                               /\ Over(t, [j1 EXCEPT !.info = info], FALSE,
                                       [info EXCEPT !.raised = "none"]
                                           @@ [last_page |-> j1.last_page],
                                       files)
                          ELSE /\ Locking(guarded_helper(St, t,
                                                         j.bucket_name),
                                          "other")
                               /\ GoOn(t, gather([j1 EXCEPT
                                                    !.info = info,
                                                    !.heads = info.objects]))
    /\ UNCHANGED <<lvars, store, buckets, now>>

\* The HEADs of task t that the remote has not answered: those of the call
\* it runs, by their index in the keys of the page, and those of the
\* head_object tasks its earlier listings left behind, by their place
\* among them.
InFlight(t) ==
    {<<"call", i>> : i \in IF job[t].op = "none" THEN {} ELSE job[t].pending}
        \cup {<<"left", k>> : k \in {n \in 1..Len(job[t].left) :
                                         job[t].left[n].sent}}

\* The first step of a head_object task that gather made: it sends its
\* HEAD and waits for the answer, but head_object of the placeholder's name
\* raises NoSuchKey at once.  The tasks take their first step in the order
\* gather made them in; those of a listing that is over take it as well.
StartHead(t) ==
    /\ err = "ok"
    /\ IF job[t].op \in Listings /\ job[t].at = "heads"
          /\ job[t].starting # <<>>
       THEN \E j \in {job[t]} : \E i \in {Head(j.starting)} :
               /\ Locking(St, "other")
               /\ GoOn(t, IF j.heads[i] = placeholder_name
                          THEN [j EXCEPT !.starting = Tail(@),
                                         !.ended = Append(@, [i |-> i,
                                                              raised |-> "NoSuchKey"])]
                          ELSE [j EXCEPT !.starting = Tail(@),
                                         !.pending = @ \cup {i}])
       ELSE /\ \E k \in 1..Len(job[t].left) :
                  /\ ~job[t].left[k].sent
                  /\ \A n \in 1..(k - 1) : job[t].left[n].sent
                  /\ job' = [job EXCEPT ![t].left =
                                IF job[t].left[k].key = placeholder_name
                                THEN Dropped(@, k)
                                ELSE [@ EXCEPT ![k].sent = TRUE]]
            /\ UNCHANGED <<kvars, ret, files, put_ret>>
    /\ UNCHANGED <<lvars, store, buckets, now>>

\* The remote answers HEAD h of those in flight for task t, and the
\* coroutine that waits for it ends.  head_object called by the task
\* returns or raises.  A head_object task of a listing ends with its result
\* or its exception, and its done callback is queued: the listing itself
\* does not run.  The answers of a batch are read once all its tasks have
\* taken their first step.  A task that a listing left behind ends
\* unnoticed: gather's future is done, its callback does nothing.
ServeHead(t, h) ==
    /\ err = "ok"
    /\ h \in InFlight(t)
    /\ IF h[1] = "left"
       THEN /\ job' = [job EXCEPT ![t].left = Dropped(@, h[2])]
            /\ UNCHANGED <<kvars, ret, files, put_ret>>
       ELSE /\ job[t].op \in Listings \cup {"head_object"}
            /\ job[t].at = "heads"
            /\ job[t].starting = <<>>
            /\ \E j \in {job[t]} : \E i \in {h[2]} :
               \E head \in {GitlabStore_head_object(files, j.bucket_name,
                                                    j.heads[i])} :
                  IF j.op = "head_object"
                  THEN /\ Over(t, [j EXCEPT !.pending = {}], FALSE, head,
                               files)
                       /\ UNCHANGED kvars
                  ELSE /\ Locking(St, "other")
                       /\ GoOn(t, [j EXCEPT
                                     !.pending = @ \ {i},
                                     !.ended = Append(@, [i |-> i,
                                                          raised |-> head.raised]),
                                     !.objects = IF head.raised = "none"
                                                 THEN (i :> head.info) @@ @
                                                 ELSE @])
    /\ UNCHANGED <<lvars, store, buckets, now>>

\* gather's _done_callback for the head_object task that ended first: it
\* counts the task; while gather's future is not done, the task's exception
\* becomes the future's, and the last task of the batch gives the future
\* its result.  The listing is woken by another callback.
HeadDone(t) ==
    /\ err = "ok"
    /\ job[t].op \in Listings
    /\ job[t].at = "heads"
    /\ job[t].ended # <<>>
    /\ \E j \in {job[t]} : \E e \in {Head(j.ended)} :
          /\ Locking(St, "other")
          /\ GoOn(t, [j EXCEPT
                        !.ended = Tail(@),
                        !.counted = @ + 1,
                        !.gather = IF @ # "pending" THEN @
                                   ELSE IF e.raised # "none" THEN e.raised
                                   ELSE IF j.counted + 1 = Cardinality(j.batch)
                                   THEN "result" ELSE "pending"])
    /\ UNCHANGED <<lvars, store, buckets, now>>

\* gather's future is done and the listing runs again.  On an exception it
\* leaves the guard and raises, and the tasks of the batch that have not
\* ended stay behind.  On a result `objects.extend(heads)`: the loop goes
\* to the next batch, or _collect_objects returns and the listing with it.
GatherDone(t) ==
    /\ err = "ok"
    /\ job[t].op \in Listings
    /\ job[t].at = "heads"
    /\ job[t].gather \notin {"none", "pending"}
    /\ \E j \in {job[t]} :
          IF j.gather # "result"
          THEN /\ Locking(lock_exit(St, t, TRUE), "other")
               /\ Over(t, [j EXCEPT !.left = @ \o left_behind(j)], FALSE,
                       [raised |-> j.gather, last_page |-> j.last_page],
                       files)
          ELSE IF j.issued = Len(j.heads)
          THEN /\ Locking(lock_exit(St, t, FALSE), "other")
               /\ Over(t, j, FALSE, ListingValue(j, j.objects), files)
          ELSE /\ Locking(St, "other")
               /\ GoOn(t, gather(j))
    /\ UNCHANGED <<lvars, store, buckets, now>>

\* The calls of the operations by task t.
CallListBuckets(t) ==
    /\ job[t].op = "none"
    /\ StartJob(t, NewJob("list_buckets", 0, None, <<>>,
                          [op |-> "list_buckets"]))

CallCreateBucket(t, bucket_name) ==
    /\ job[t].op = "none"
    /\ StartJob(t, NewJob("create_bucket", bucket_name, placeholder_name, <<>>,
                          [op |-> "create_bucket"]))

CallDeleteBucket(t, bucket_name, facade) ==
    /\ job[t].op = "none"
    /\ StartJob(t, [NewJob("delete_bucket", bucket_name, None, <<>>,
                           [op |-> "delete_bucket"])
                        EXCEPT !.facade = facade])

CallListObjects(t, bucket_name, pfx, delim, n, marker) ==
    /\ job[t].op = "none"
    /\ Len(job[t].left) <= MaxLeft
    /\ StartJob(t, NewJob("list_objects", bucket_name, None, <<>>,
                          [op |-> "list_objects", prefix |-> pfx,
                           delimiter |-> delim, max_keys |-> n,
                           marker |-> marker]))

CallListObjectsV2(t, bucket_name, continuation_token, delim, enc, n, pfx, start_after) ==
    /\ job[t].op = "none"
    /\ Len(job[t].left) <= MaxLeft
    /\ StartJob(t, NewJob("list_objects_v2", bucket_name, None, <<>>,
                          [op |-> "list_objects_v2", prefix |-> pfx,
                           delimiter |-> delim, max_keys |-> n,
                           continuation_token |-> continuation_token,
                           start_after |-> start_after,
                           encoding_type |-> enc]))

CallGetObject(t, bucket_name, key) ==
    /\ job[t].op = "none"
    /\ StartJob(t, NewJob("get_object", bucket_name, key, <<>>,
                          [op |-> "get_object"]))

CallHeadObject(t, bucket_name, key) ==
    /\ job[t].op = "none"
    /\ StartJob(t, NewJob("head_object", bucket_name, key, <<>>,
                          [op |-> "head_object"]))

CallPutObject(t, bucket_name, key, data) ==
    /\ job[t].op = "none"
    /\ StartJob(t, NewJob("put_object", bucket_name, key, data,
                          [op |-> "put_object"]))

CallDeleteObject(t, bucket_name, key, facade) ==
    /\ job[t].op = "none"
    /\ StartJob(t, [NewJob("delete_object", bucket_name, key, <<>>,
                           [op |-> "delete_object"])
                        EXCEPT !.facade = facade])

\* ----------------------------------------------- one listing of a bucket
\* One listing is made, of a bucket that exists on the remote.
GitlabListNext ==
    \/ /\ ret.op = "none"
       /\ job[Caller].op = "none"
       /\ \E bucket_name \in ListedBuckets, pfx \in Affixes,
             delim \in Affixes, n \in 0..MaxPage, marker \in Markers :
             CallListObjects(Caller, bucket_name, pfx, delim, n, marker)
    \/ /\ ret.op = "none"
       /\ job[Caller].op = "none"
       /\ \E bucket_name \in ListedBuckets, continuation_token \in Markers,
             delim \in Affixes, enc \in {None, url}, n \in 0..MaxPage,
             pfx \in Affixes, start_after \in StartAfters :
             CallListObjectsV2(Caller, bucket_name, continuation_token, delim,
                               enc, n, pfx, start_after)
    \/ \E layout \in LayoutsOf(Caller) : ServeTree(Caller, layout)
    \/ StartHead(Caller)
    \/ \E h \in InFlight(Caller) : ServeHead(Caller, h)
    \/ HeadDone(Caller)
    \/ GatherDone(Caller)

SpecGitlabList == GitlabListInit /\ [][GitlabListNext]_vars

\* --------------------------------------------- GitlabStore called by tasks
\* The tasks that call the guarded operations of the store side by side,
\* and the object key they put and delete, one that quote() changes.  The
\* bucket they work on holds an object from the start, put there before.
Callers == 1..2

TaskKeys == {<<97, 123>>}

KeptKey == <<98>>

TasksInit ==
    /\ NewKeysmith
    /\ NoListing
    /\ store = "GitlabStore"
    /\ buckets = <<>>
    /\ files = [p \in {object_path(Caller, KeptKey)} |-> <<>>]
    /\ now = 0
    /\ ret = NoRet
    /\ put_ret = [p \in {} |-> None]
    /\ job = [t \in Tasks |-> Idle]

\* The tasks call the operations on one bucket.
OneBucketNext ==
    \/ \E t \in Callers : CallCreateBucket(t, Caller)
    \/ \E t \in Callers : CallDeleteBucket(t, Caller, FALSE)
    \/ \E t \in Callers :
          CallListObjects(t, Caller, None, None, MaxPage, None)
    \/ \E t \in Callers, enc \in {None, url} :
          CallListObjectsV2(t, Caller, None, None, enc, MaxPage, None, None)
    \/ \E t \in Callers, k \in TaskKeys, data \in {<<>>} :
          CallPutObject(t, Caller, k, data)
    \/ \E t \in Callers, k \in TaskKeys : CallDeleteObject(t, Caller, k, FALSE)
    \/ \E t \in Callers : ResumeJob(t)
    \/ \E t \in Callers, down \in BOOLEAN : ServeFile(t, down)
    \/ \E t \in Callers : \E layout \in LayoutsOf(t) : ServeTree(t, layout)
    \/ \E t \in Callers : StartHead(t)
    \/ \E t \in Callers : \E h \in InFlight(t) : ServeHead(t, h)
    \/ \E t \in Callers : HeadDone(t)
    \/ \E t \in Callers : GatherDone(t)

\* The remote answers every request, and the event loop resumes a task whose
\* wait is over.
SpecGitlabOneBucket ==
    /\ TasksInit
    /\ [][OneBucketNext]_vars
    /\ \A t \in Callers :
          /\ WF_vars(ResumeJob(t))
          /\ WF_vars(\E down \in BOOLEAN : ServeFile(t, down))
          /\ WF_vars(\E layout \in LayoutsOf(t) : ServeTree(t, layout))
          /\ WF_vars(StartHead(t))
          /\ WF_vars(\E h \in InFlight(t) : ServeHead(t, h))
          /\ WF_vars(HeadDone(t))
          /\ WF_vars(GatherDone(t))

\* ------------------------------------------------ the calls of one store
\* An application built with one of the two stores, called by one task.
\* A call of GitlabStore is over before the next is made; each answer of the
\* remote to it is a step. The calls of InMemoryStore run to their end in
\* one step, but for list_objects: its generator gives one item a step, and
\* other calls are made between two items.
\* The clock is read at most MaxNow times.
MaxNow == 3

\* The greatest max_keys a listing of InMemoryStore is called with.
MaxLimit == 2

\* The object keys used: the placeholder's name and another.
StoreKeys == {placeholder_name, <<97>>}

PathsOf(bucket_name) == {object_path(bucket_name, k) : k \in StoreKeys}

StoresInit ==
    /\ NewKeysmith
    /\ NoListing
    /\ store \in {"InMemoryStore", "GitlabStore"}
    /\ buckets = <<>>
    /\ files = [p \in {} |-> None]
    /\ now = 0
    /\ ret = NoRet
    /\ put_ret = [p \in {} |-> None]
    /\ job = [t \in Tasks |-> Idle]

InMemoryListBuckets ==
    /\ store = "InMemoryStore"
    /\ ret' = [op |-> "list_buckets",
               value |-> [raised |-> "none",
                          buckets |-> InMemoryStore_list_buckets(buckets)]]
    /\ UNCHANGED <<kvars, lvars, store, buckets, files, now, put_ret, job>>

InMemoryCreateBucket(bucket_name) ==
    /\ store = "InMemoryStore"
    /\ \E r \in {InMemoryStore_create_bucket(buckets, bucket_name, now)} :
          /\ r.now <= MaxNow
          /\ buckets' = r.buckets
          /\ now' = r.now
          /\ ret' = [op |-> "create_bucket", bucket_name |-> bucket_name,
                     value |-> [raised |-> r.raised]]
    /\ UNCHANGED <<kvars, lvars, store, files, put_ret, job>>

\* What a generator of list_objects holds once delete_bucket has taken the
\* bucket out of the _buckets bs: the generator that went through the first
\* item of that bucket keeps the Bucket, and nothing else reaches it.
Unbound(j, bs, bucket_name) ==
    IF /\ j.op = "list_objects"
       /\ j.at = "items"
       /\ j.bucket.live
       /\ j.bucket_name = bucket_name
    THEN [j EXCEPT !.bucket = [live |-> FALSE,
                               objects |-> DictGet(bs, bucket_name).objects]]
    ELSE j

InMemoryDeleteBucket(bucket_name) ==
    /\ store = "InMemoryStore"
    /\ \E r \in {InMemoryStore_delete_bucket(buckets, bucket_name)} :
          /\ buckets' = r.buckets
          /\ ret' = [op |-> "delete_bucket", bucket_name |-> bucket_name,
                     value |-> [raised |-> r.raised]]
          /\ put_ret' = IF r.raised = "none"
                        THEN Forget(put_ret, PathsOf(bucket_name))
                        ELSE put_ret
          /\ job' = IF r.raised = "none"
                    THEN [t \in Tasks |-> Unbound(job[t], buckets,
                                                  bucket_name)]
                    ELSE job
    /\ UNCHANGED <<kvars, lvars, store, files, now>>

\* list_objects(bucket_name, prefix, None, max_keys) is called: it makes
\* the asynchronous generator and runs none of its code. The caller holds
\* one generator at a time.
InMemoryListObjects(bucket_name, pfx, n) ==
    /\ store = "InMemoryStore"
    /\ job[Caller].op = "none"
    /\ job' = [job EXCEPT ![Caller] =
                  [NewJob("list_objects", bucket_name, None, <<>>,
                          [prefix |-> pfx, max_keys |-> Boxed(n)])
                      EXCEPT !.at = "created"]]
    /\ ret' = NoRet
    /\ UNCHANGED <<kvars, lvars, store, buckets, files, now, put_ret>>

\* The objects of the Bucket that the generator j holds.
GeneratorObjects(j) ==
    IF j.bucket.live THEN DictGet(buckets, j.bucket_name).objects
    ELSE j.bucket.objects

\* The generator j, with the keys j.todo still to go through, runs to its
\* next yield, to its end, or to the KeyError of a key that its Bucket
\* holds no more; j.objects are the items it has given.
NextItem(j) ==
    IF j.todo = <<>>
    THEN /\ job' = [job EXCEPT ![Caller] = Idle]
         /\ ret' = [op |-> "list_objects", bucket_name |-> j.bucket_name,
                    value |-> [raised |-> "none", objects |-> j.objects]]
    ELSE IF ~DictHas(GeneratorObjects(j), Head(j.todo))
    THEN /\ job' = [job EXCEPT ![Caller] = Idle]
         /\ ret' = [op |-> "list_objects", bucket_name |-> j.bucket_name,
                    value |-> [raised |-> "KeyError",
                               key |-> Head(j.todo),
                               objects |-> j.objects]]
    ELSE \E item \in {DictGet(GeneratorObjects(j), Head(j.todo)).metadata} :
            /\ job' = [job EXCEPT ![Caller] =
                          [j EXCEPT !.todo = Tail(@),
                                    !.objects = Append(@, item)]]
            /\ ret' = [op |-> "list_objects.item",
                       bucket_name |-> j.bucket_name,
                       value |-> [raised |-> "none", item |-> item]]

\* The caller asks the generator for its next item. The first time, the
\* generator looks the bucket up, raises NoSuchBucket when _buckets has
\* none of the name by now, and else takes the Bucket and its keys.
InMemoryListObjectsNext ==
    /\ store = "InMemoryStore"
    /\ job[Caller].op = "list_objects"
    /\ \E j \in {job[Caller]} :
          IF j.at = "items" THEN NextItem(j)
          ELSE IF ~DictHas(buckets, j.bucket_name)
          THEN /\ job' = [job EXCEPT ![Caller] = Idle]
               /\ ret' = [op |-> "list_objects",
                          bucket_name |-> j.bucket_name,
                          value |-> [raised |-> "NoSuchBucket"]]
          ELSE NextItem([j EXCEPT
                   !.at = "items",
                   !.bucket = BoundBucket,
                   !.todo = InMemoryStore_listed_keys(
                                DictGet(buckets, j.bucket_name),
                                j.q.prefix, j.q.max_keys)])
    /\ UNCHANGED <<kvars, lvars, store, buckets, files, now, put_ret>>

InMemoryGetObject(bucket_name, key) ==
    /\ store = "InMemoryStore"
    /\ ret' = [op |-> "get_object", bucket_name |-> bucket_name,
               key |-> key,
               value |-> [raised |-> "none",
                          object |-> InMemoryStore_get_object(
                                         buckets, bucket_name, key)]]
    /\ UNCHANGED <<kvars, lvars, store, buckets, files, now, put_ret, job>>

InMemoryPutObject(bucket_name, key, data) ==
    /\ store = "InMemoryStore"
    /\ \E r \in {InMemoryStore_put_object(buckets, bucket_name, key, data,
                                          now)} :
          /\ r.now <= MaxNow
          /\ buckets' = r.buckets
          /\ now' = r.now
          /\ ret' = [op |-> "put_object", bucket_name |-> bucket_name,
                     key |-> key, data |-> data,
                     value |-> [raised |-> r.raised, etag |-> r.etag]]
          /\ put_ret' = (object_path(bucket_name, key) :>
                             [data |-> data, etag |-> r.etag]) @@ put_ret
    /\ UNCHANGED <<kvars, lvars, store, files, job>>

InMemoryDeleteObject(bucket_name, key) ==
    /\ store = "InMemoryStore"
    /\ \E r \in {InMemoryStore_delete_object(buckets, bucket_name, key)} :
          /\ buckets' = r.buckets
          /\ ret' = [op |-> "delete_object", bucket_name |-> bucket_name,
                     key |-> key, value |-> [raised |-> r.raised]]
          /\ put_ret' = IF r.raised = "none"
                        THEN Forget(put_ret, {object_path(bucket_name, key)})
                        ELSE put_ret
    /\ UNCHANGED <<kvars, lvars, store, files, now, job>>

InMemoryHeadObject(bucket_name, key) ==
    /\ store = "InMemoryStore"
    /\ ret' = [op |-> "head_object", bucket_name |-> bucket_name,
               key |-> key,
               value |-> [raised |-> "none",
                          info |-> InMemoryStore_head_object(
                                       buckets, bucket_name, key)]]
    /\ UNCHANGED <<kvars, lvars, store, buckets, files, now, put_ret, job>>

\* DELETE /{bucket}/{key} of an application built with InMemoryStore.
InMemoryS3DeleteObject(bucket_name, key) ==
    /\ store = "InMemoryStore"
    /\ \E r \in {InMemoryStore_delete_object(buckets, bucket_name, key)} :
          /\ buckets' = r.buckets
          /\ ret' = [op |-> "S3.delete_object", bucket_name |-> bucket_name,
                     key |-> key, store_raised |-> r.raised,
                     value |-> S3_delete_object(r.raised)]
          /\ put_ret' = IF r.raised = "none"
                        THEN Forget(put_ret, {object_path(bucket_name, key)})
                        ELSE put_ret
    /\ UNCHANGED <<kvars, lvars, store, files, now, job>>

\* DELETE /{bucket} of an application built with InMemoryStore.
InMemoryS3DeleteBucket(bucket_name) ==
    /\ store = "InMemoryStore"
    /\ \E r \in {InMemoryStore_delete_bucket(buckets, bucket_name)} :
          /\ buckets' = r.buckets
          /\ ret' = [op |-> "S3.delete_bucket", bucket_name |-> bucket_name,
                     store_raised |-> r.raised,
                     value |-> S3_delete_bucket(r.raised)]
          /\ put_ret' = IF r.raised = "none"
                        THEN Forget(put_ret, PathsOf(bucket_name))
                        ELSE put_ret
          /\ job' = IF r.raised = "none"
                    THEN [t \in Tasks |-> Unbound(job[t], buckets,
                                                  bucket_name)]
                    ELSE job
    /\ UNCHANGED <<kvars, lvars, store, files, now>>

\* The calls of InMemoryStore, the items of its generator, the calls of
\* GitlabStore by the one task Caller, and the remote's answers to them.
StoresNext ==
    \/ InMemoryListBuckets
    \/ \E b \in BucketNames : InMemoryCreateBucket(b)
    \/ \E b \in BucketNames : InMemoryDeleteBucket(b)
    \/ \E b \in BucketNames, pfx \in {None, <<97>>} :
          InMemoryListObjects(b, pfx, None)
    \/ \E b \in BucketNames, n \in 0..MaxLimit :
          InMemoryListObjects(b, None, n)
    \/ InMemoryListObjectsNext
    \/ \E b \in BucketNames, k \in StoreKeys : InMemoryGetObject(b, k)
    \/ \E b \in BucketNames, k \in StoreKeys, data \in Datas :
          InMemoryPutObject(b, k, data)
    \/ \E b \in BucketNames, k \in StoreKeys : InMemoryDeleteObject(b, k)
    \/ \E b \in BucketNames, k \in StoreKeys : InMemoryHeadObject(b, k)
    \/ \E b \in BucketNames, k \in StoreKeys : InMemoryS3DeleteObject(b, k)
    \/ \E b \in BucketNames : InMemoryS3DeleteBucket(b)
    \/ /\ store = "GitlabStore"
       /\ CallListBuckets(Caller)
    \/ /\ store = "GitlabStore"
       /\ \E b \in BucketNames : CallCreateBucket(Caller, b)
    \/ /\ store = "GitlabStore"
       /\ \E b \in BucketNames, facade \in BOOLEAN :
             CallDeleteBucket(Caller, b, facade)
    \/ /\ store = "GitlabStore"
       /\ \E b \in BucketNames, n \in 1..MaxPage :
             CallListObjects(Caller, b, None, None, n, None)
    \/ /\ store = "GitlabStore"
       /\ \E b \in BucketNames, enc \in {None, url}, n \in 1..MaxPage :
             CallListObjectsV2(Caller, b, None, None, enc, n, None, None)
    \/ /\ store = "GitlabStore"
       /\ \E b \in BucketNames, k \in StoreKeys : CallGetObject(Caller, b, k)
    \/ /\ store = "GitlabStore"
       /\ \E b \in BucketNames, k \in StoreKeys, data \in Datas :
             CallPutObject(Caller, b, k, data)
    \/ /\ store = "GitlabStore"
       /\ \E b \in BucketNames, k \in StoreKeys, facade \in BOOLEAN :
             CallDeleteObject(Caller, b, k, facade)
    \/ /\ store = "GitlabStore"
       /\ \E b \in BucketNames, k \in StoreKeys :
             CallHeadObject(Caller, b, k)
    \/ ServeRoot(Caller)
    \/ \E down \in BOOLEAN : ServeFile(Caller, down)
    \/ \E layout \in LayoutsOf(Caller) : ServeTree(Caller, layout)
    \/ StartHead(Caller)
    \/ \E h \in InFlight(Caller) : ServeHead(Caller, h)
    \/ HeadDone(Caller)
    \/ GatherDone(Caller)

SpecStores == StoresInit /\ [][StoresNext]_vars

\* --------------------------------------------------------- store vocabulary
\* The buckets list_buckets names.
BucketSet ==
    IF store = "InMemoryStore"
    THEN {buckets[i].key : i \in 1..Len(buckets)}
    ELSE GitlabStore_list_buckets(files)

\* The keys the store holds under the bucket's name, the placeholder too,
\* by its _buckets bs or its remote files fs.
KeysIn(bs, fs, bucket_name) ==
    IF store = "InMemoryStore"
    THEN IF DictHas(bs, bucket_name)
         THEN {DictGet(bs, bucket_name).objects[i].key :
                  i \in 1..Len(DictGet(bs, bucket_name).objects)}
         ELSE {}
    ELSE TreeKeys(fs, bucket_name)

KeysOf(bucket_name) == KeysIn(buckets, files, bucket_name)

\* The remote answered the request of the call that the step ends
\* (GitlabStore): `ret` is NoRet while a call runs, and what the call
\* returned or raised from the step that ends it.
RemoteUp == ~ret'.down

\* Nothing is held or awaited in the Keysmith.
Quiet ==
    /\ count_guards = 0
    /\ \A l \in AllLocks : ~locked[l] /\ waiters[l] = <<>>
    /\ \A t \in Tasks : stack[t] = <<>>

\* A listing by GitlabStore returned.
GitlabListed ==
    /\ store = "GitlabStore"
    /\ ret.op \in {"list_objects", "list_objects_v2"}

\* C23. In GitlabStore, after any sequence of calls: no listing returns the
\* placeholder among its contents, and a bucket that holds nothing but the
\* placeholder lists as empty; get_object and head_object of the
\* placeholder key raise NoSuchKey; put_object of the placeholder key is
\* rejected and leaves the remote's files as they were.
C23_PlaceholderInvisible ==
    [][store = "GitlabStore" =>
          /\ (ret'.op \in {"list_objects", "list_objects_v2"}
                  /\ ret'.value.raised = "none") =>
                 \A i \in 1..Len(ret'.value.objects) :
                     ret'.value.objects[i].key
                         \notin {placeholder_name, quote(placeholder_name)}
          /\ (ret'.op \in {"list_objects", "list_objects_v2"}
                  /\ TreeKeys(files, ret'.bucket_name) = {placeholder_name})
                 => /\ ret'.value.raised = "none"
                    /\ ret'.value.objects = <<>>
                    /\ ret'.value.common_prefixes = <<>>
                    /\ ~ret'.value.is_truncated
          /\ (ret'.op \in {"get_object", "head_object"}
                  /\ ret'.key = placeholder_name)
                 => ret'.value.raised = "NoSuchKey"
          /\ (ret'.op = "put_object" /\ ret'.key = placeholder_name)
                 => ret'.value.raised = "ValueError" /\ files' = files]_vars

\* A listing of a bucket that holds the placeholder and another file
\* returned one key.
C23_Witness ==
    /\ GitlabListed
    /\ placeholder_name \in TreeKeys(files, ret.bucket_name)
    /\ ret.value.raised = "none"
    /\ Len(ret.value.objects) = 1

\* What get_object returns for the key from the _buckets bs or the remote
\* files fs of the store (GitlabStore: the remote up):
\* the body and the ETag, or NoObject when it returns None or raises.
ReadBack(bs, fs, bucket_name, key) ==
    IF store = "InMemoryStore"
    THEN Do(InMemoryStore_get_object(bs, bucket_name, key), LAMBDA o :
             IF o = NoObject THEN NoObject
             ELSE [data |-> o.data, etag |-> o.metadata.etag])
    ELSE Do(GitlabStore_get_object(fs, bucket_name, key, FALSE),
            LAMBDA r :
             IF r.raised # "none" THEN NoObject
             ELSE [data |-> r.data, etag |-> r.info.etag])

\* The step is a put_object on a key the bucket already holds, not the
\* placeholder's, answered by the remote.
RePut ==
    /\ ret'.op = "put_object"
    /\ ret'.key \in KeysOf(ret'.bucket_name)
    /\ store = "GitlabStore" => ret'.key # placeholder_name /\ RemoteUp

\* The keys of every bucket of InMemoryStore, each once.
EachKeyOnce ==
    \A i \in 1..Len(buckets) :
        \A j, k \in 1..Len(buckets[i].value.objects) :
            buckets[i].value.objects[j].key = buckets[i].value.objects[k].key
                => j = k

\* C24. In both stores, put_object on a key the bucket already holds
\* succeeds and replaces the object: the key is held once, and get_object
\* then returns the new data with the ETag the put returned.
C24_RePutReplaces ==
    [][RePut =>
          /\ ret'.value.raised = "none"
          /\ EachKeyOnce'
          /\ ReadBack(buckets', files', ret'.bucket_name, ret'.key)
                 = [data |-> ret'.data, etag |-> ret'.value.etag]]_vars

\* The same for InMemoryStore alone.
C24_RePutReplacesInMemory ==
    [][(store = "InMemoryStore" /\ RePut) =>
          /\ ret'.value.raised = "none"
          /\ EachKeyOnce'
          /\ ReadBack(buckets', files', ret'.bucket_name, ret'.key)
                 = [data |-> ret'.data, etag |-> ret'.value.etag]]_vars

\* GitlabStore: a put_object on a key whose file exists was answered 400
\* and raised.
C24_Witness ==
    /\ store = "GitlabStore"
    /\ ret.op = "put_object"
    /\ ~ret.down
    /\ ret.value.raised = "HTTPStatusError"
    /\ object_path(ret.bucket_name, ret.key) \in DOMAIN files

\* What list_objects returns for the bucket once create_bucket has been
\* called on the store with _buckets bs or remote files fs.
ListingOnceCreated(bs, fs, bucket_name) ==
    IF store = "InMemoryStore"
    THEN InMemoryStore_list_objects(
             InMemoryStore_create_bucket(bs, bucket_name, now).buckets,
             bucket_name, None, None)
    ELSE Do(GitlabStore_create_bucket(fs, bucket_name, FALSE).files,
            LAMBDA fs1 :
                GitlabStore_list_objects(
                    fs1, bucket_name, None, None, MaxPage, None,
                    <<sorted_set(TreeKeys(fs1, bucket_name))>>))

\* After the step the bucket and its objects are gone: list_buckets does
\* not name it, no key is held under its name (GitlabStore: the placeholder
\* neither), get_object finds nothing, and the bucket created again lists
\* as empty.
BucketGone(bucket_name) ==
    /\ bucket_name \notin BucketSet'
    /\ KeysIn(buckets', files', bucket_name) = {}
    /\ \A k \in StoreKeys :
          ReadBack(buckets', files', bucket_name, k) = NoObject
    /\ ListingOnceCreated(buckets', files', bucket_name).raised = "none"
    /\ ListingOnceCreated(buckets', files', bucket_name).objects = <<>>

\* C25. After delete_bucket of a bucket has returned without error, the
\* bucket is absent from list_buckets, none of its objects can be read, the
\* bucket created again lists as empty, and in GitlabStore no file of it
\* is left, the placeholder neither.
C25_AfterDeleteBucket ==
    [][(ret'.op = "delete_bucket" /\ ret'.value.raised = "none")
          => BucketGone(ret'.bucket_name)]_vars

\* InMemoryStore: delete_bucket removed a bucket that held an object.
C25_WitnessInMemory ==
    /\ store = "InMemoryStore"
    /\ ret.op = "delete_bucket"
    /\ ret.value.raised = "none"
    /\ ret.bucket_name \notin BucketSet
    /\ now >= 2
    /\ buckets = <<>>

\* The step is a put_object into a bucket that does not exist (GitlabStore:
\* not of the placeholder key, and the remote answers).
PutIntoMissingBucket ==
    /\ ret'.op = "put_object"
    /\ ret'.bucket_name \notin BucketSet
    /\ store = "GitlabStore" => ret'.key # placeholder_name /\ RemoteUp

\* C26. In both stores, put_object into a bucket that does not exist raises
\* NoSuchBucket and leaves the store as it was: no bucket is created.
C26_PutNeedsBucket ==
    [][PutIntoMissingBucket =>
          /\ ret'.value.raised = "NoSuchBucket"
          /\ buckets' = buckets
          /\ files' = files]_vars

\* A put_object into a bucket that did not exist returned, and the bucket
\* now exists with that one object.
C26_Witness ==
    /\ ret.op = "put_object"
    /\ ret.value.raised = "none"
    /\ BucketSet = {ret.bucket_name}
    /\ KeysOf(ret.bucket_name) = {ret.key}
    /\ store = "InMemoryStore" =>
           DictGet(buckets, ret.bucket_name).creation_date + 1
               = DictGet(DictGet(buckets, ret.bucket_name).objects,
                         ret.key).metadata.last_modified
    /\ store = "GitlabStore" => put_ret # <<>> /\ Quiet

\* The last put_object of the key that `ret` names, when nothing has written
\* the key since.
LastPut == put_ret[object_path(ret.bucket_name, ret.key)]

Unwritten ==
    /\ ret.op \in {"get_object", "head_object"}
    /\ object_path(ret.bucket_name, ret.key) \in DOMAIN put_ret

\* What get_object or head_object returned is what the last put of the key
\* stored: the body (get_object), the ETag the put returned and the size
\* len(data).
ReadsLastPut ==
    IF store = "InMemoryStore"
    THEN /\ ret.op = "get_object" =>
               /\ ret.value.object # NoObject
               /\ ret.value.object.data = LastPut.data
               /\ ret.value.object.metadata.etag = LastPut.etag
               /\ ret.value.object.metadata.size = Len(LastPut.data)
         /\ ret.op = "head_object" =>
               /\ ret.value.info # NoObject
               /\ ret.value.info.etag = LastPut.etag
               /\ ret.value.info.size = Len(LastPut.data)
    ELSE /\ ret.value.raised = "none"
         /\ ret.op = "get_object" => ret.value.data = LastPut.data
         /\ ret.value.info.etag = LastPut.etag
         /\ ret.value.info.size = Len(LastPut.data)

\* The remote answered the request of the call that `ret` is of.
Answered == ret.op = "get_object" /\ store = "GitlabStore" => ~ret.down

\* C27. In both stores, after put_object(B, k, data) and no write to (B, k)
\* since, get_object(B, k) returns exactly data with size len(data), and
\* head_object(B, k) returns the ETag the put returned and size len(data).
C27_RoundTrip == (Unwritten /\ Answered) => ReadsLastPut

\* The same for InMemoryStore alone.
C27_RoundTripInMemory ==
    (store = "InMemoryStore" /\ Unwritten) => ReadsLastPut

\* The same for the empty body, which its base64 text equals.
C27_RoundTripEmpty ==
    (Unwritten /\ Answered /\ LastPut.data = <<>>) => ReadsLastPut

\* GitlabStore: get_object of a key whose last put stored one byte returned
\* the base64 text of the byte, four characters.
C27_ReadsBase64 ==
    /\ store = "GitlabStore"
    /\ Unwritten
    /\ ret.op = "get_object"
    /\ ~ret.down
    /\ Len(LastPut.data) = 1
    /\ ret.value.raised = "none"
    /\ ret.value.data = b64encode(LastPut.data)
    /\ ret.value.info.size = 4

\* InMemoryStore: head_object of a key whose last put, the third reading of
\* the clock, stored a body of one byte.
C27_WitnessInMemory ==
    /\ store = "InMemoryStore"
    /\ Unwritten
    /\ ret.op = "head_object"
    /\ Len(LastPut.data) = 1
    /\ ret.value.info # NoObject
    /\ ret.value.info.last_modified = 2

\* The remote answers 400 to the creation of the bucket's placeholder file:
\* it is up and the file exists.
PlaceholderExists(bucket_name) ==
    object_path(bucket_name, placeholder_name) \in DOMAIN files

\* C28. create_bucket on a bucket that exists (InMemoryStore), or whose
\* placeholder file the remote refuses with 400 (GitlabStore), raises
\* BucketAlreadyExists and leaves the buckets, their objects and their
\* creation dates as they were.
C28_CreateExistingBucket ==
    [][(/\ ret'.op = "create_bucket"
        /\ IF store = "InMemoryStore"
           THEN ret'.bucket_name \in BucketSet
           ELSE RemoteUp /\ PlaceholderExists(ret'.bucket_name))
          => /\ ret'.value.raised = "BucketAlreadyExists"
             /\ buckets' = buckets
             /\ files' = files]_vars

\* create_bucket raised BucketAlreadyExists for a bucket that holds an
\* object.
C28_Witness ==
    /\ ret.op = "create_bucket"
    /\ ret.value.raised = "BucketAlreadyExists"
    /\ <<97>> \in KeysOf(ret.bucket_name)

\* The facade's answer 204.
NoContent == [raised |-> "none", status_code |-> HTTP_204_NO_CONTENT]

\* The step repeats the facade delete made just before it, which was
\* answered 204.
RepeatsDelete ==
    /\ ret.op = ret'.op
    /\ ret.bucket_name = ret'.bucket_name
    /\ ret.op = "S3.delete_object" => ret.key = ret'.key
    /\ ret.value = NoContent

C30_DeletionErrors ==
    [][store = "GitlabStore" =>
          /\ (ret'.op = "delete_object" /\ ret'.key # placeholder_name) =>
                 /\ RemoteUp => ret'.value.raised = "none"
                 /\ ~RemoteUp => ret'.value.raised # "none"
                 /\ Quiet'
          /\ (ret'.op = "delete_bucket"
                  /\ ret'.bucket_name \in BucketSet) =>
                 /\ ~RemoteUp => ret'.value.raised # "none"
                 /\ Quiet']_vars

\* The guard's part of it: after every delete_object and delete_bucket of
\* GitlabStore, returned or raised, nothing is held in the Keysmith.
C30_GuardReleased ==
    [][(store = "GitlabStore"
           /\ ret'.op \in {"delete_object", "delete_bucket"}) => Quiet']_vars

\* delete_object of a key that has no file on the remote, the remote up,
\* raised before any request was made, and the guard is released.
C30_Witness ==
    /\ store = "GitlabStore"
    /\ ret.op = "delete_object"
    /\ ~ret.down
    /\ object_path(ret.bucket_name, ret.key) \notin DOMAIN files
    /\ ret.value.raised = "ValidationError"
    /\ ret.value.requests = 0
    /\ Quiet

\* The guarded operations at work on the remote for the bucket: the call
\* of a task that has made a request and is not over, and the listing of a
\* task that is over while HEADs it sent are unanswered.
AtRemote(bucket_name) ==
    {<<t, "call">> : t \in {t \in Tasks : /\ job[t].op # "none"
                                          /\ job[t].bucket_name = bucket_name
                                          /\ job[t].at # "lock"}}
        \cup {<<t, "left">> : t \in {t \in Tasks :
                                        \E k \in 1..Len(job[t].left) :
                                            /\ job[t].left[k].sent
                                            /\ job[t].left[k].bucket_name
                                                   = bucket_name}}

\* The listings of the bucket that are between their first tree-page
\* request and the answer to their last HEAD.
ListingInFlight(bucket_name) ==
    {w \in AtRemote(bucket_name) :
        w[2] = "left" \/ job[w[1]].op \in Listings}

\* In this step the remote serves the create-file or delete-file request of
\* task t's create_bucket, put_object or delete_object.
ReachesRemote(t) ==
    /\ job[t].op \in {"create_bucket", "put_object", "delete_object"}
    /\ job[t].at = "file"
    /\ job'[t].op = "none"

\* C22. At any time at most one create_bucket, delete_bucket, list_objects,
\* list_objects_v2, put_object or delete_object is performing remote work on
\* a given bucket; and no create, put or delete request for a bucket is
\* served by the remote while a listing of that bucket is between its first
\* tree-page request and its last HEAD.
C22_PerBucketSerial ==
    [][/\ \A b \in BucketNames : Cardinality(AtRemote(b))' <= 1
       /\ \A t \in Tasks :
             ReachesRemote(t) => ListingInFlight(job[t].bucket_name) = {}]_vars

\* The same for the operations that are not over: at most one is at work on
\* the remote for a bucket, and no create, put or delete request is served
\* while a listing of the bucket runs between its first tree-page request
\* and its return.
C22_SerialUntilOver ==
    [][/\ \A b \in BucketNames :
             Cardinality({w \in AtRemote(b) : w[2] = "call"})' <= 1
       /\ \A t \in Tasks :
             ReachesRemote(t) =>
                {w \in ListingInFlight(job[t].bucket_name) : w[2] = "call"}
                    = {}]_vars

\* A listing awaits its HEADs while a put_object on the same bucket waits
\* for the bucket's guard.
C22_PutWaits ==
    \E t1, t2 \in Tasks :
        /\ job[t1].op \in Listings
        /\ job[t1].at = "heads"
        /\ job[t1].pending # {}
        /\ job[t2].op = "put_object"
        /\ job[t2].bucket_name = job[t1].bucket_name
        /\ job[t2].at = "lock"
        /\ pc[t2] = "guard"

\* A put_object has its request at the remote while a HEAD of a listing of
\* the same bucket, which raised, is unanswered.
C22_PutBesideHead ==
    \E t1, t2 \in Tasks :
        /\ job[t1].op = "put_object"
        /\ job[t1].at = "file"
        /\ \E k \in 1..Len(job[t2].left) :
              /\ job[t2].left[k].sent
              /\ job[t2].left[k].bucket_name = job[t1].bucket_name

\* ------------------------------------------------------------------------
\* S3.get_object: the Range header
\* ------------------------------------------------------------------------

\* The longest Range header tried, in tokens.
MaxHeader == 5

\* The largest object read with a Range header, in bytes.
MaxSize == 3

\* A header is a sequence of tokens: the unit "bytes=", the dash, decimal
\* digits and a character that is none of them.
RangeDigits == {"0", "1", "3"}

HeaderTokens == {"bytes=", "-", "x"} \cup RangeDigits

RangeHeaders == UNION {[1..n -> HeaderTokens] : n \in 1..MaxHeader}

\* The bodies read: n distinct bytes.
RangeDatas == {[i \in 1..n |-> 64 + i] : n \in 0..MaxSize}

HTTP_200_OK == 200

HTTP_206_PARTIAL_CONTENT == 206

HTTP_416_RANGE_NOT_SATISFIABLE == 416

\* No Range header in the request: None and "" alike fail `if range_header`.
NoRangeHeader == <<>>

\* No Content-Range header in the response.
NoContentRange == [none |-> TRUE]

\* range_header.replace("bytes=", "")
replace_bytes_unit(range_header) ==
    SelectSeq(range_header, LAMBDA c : c # "bytes=")

\* str.split("-", 1): the text before and after the first dash.
split_dash(range_str) ==
    LET i == CHOOSE i \in 1..Len(range_str) :
                 /\ range_str[i] = "-"
                 /\ \A j \in 1..(i - 1) : range_str[j] # "-"
    IN  [start_str |-> SubSeq(range_str, 1, i - 1),
         end_str |-> SubSeq(range_str, i + 1, Len(range_str))]

DigitValue(c) == CASE c = "0" -> 0 [] c = "1" -> 1 [] c = "3" -> 3

IsDigits(s) == s # <<>> /\ \A i \in 1..Len(s) : s[i] \in RangeDigits

RECURSIVE Decimal(_)
Decimal(s) ==
    IF s = <<>> THEN 0
    ELSE 10 * Decimal(SubSeq(s, 1, Len(s) - 1)) + DigitValue(s[Len(s)])

\* int(s): decimal digits with an optional minus sign, ValueError otherwise.
int(s) ==
    IF IsDigits(s) THEN [ok |-> TRUE, value |-> Decimal(s)]
    ELSE IF s # <<>> /\ s[1] = "-" /\ IsDigits(Tail(s))
         THEN [ok |-> TRUE, value |-> 0 - Decimal(Tail(s))]
         ELSE [ok |-> FALSE, value |-> 0]

\* raise HTTPException(status_code=416, ...)
RangeNotSatisfiable ==
    [status_code |-> HTTP_416_RANGE_NOT_SATISFIABLE, body |-> <<>>,
     content_length |-> 0, content_range |-> NoContentRange]

\* The whole object, status 200.
WholeObject(data) ==
    [status_code |-> HTTP_200_OK, body |-> data,
     content_length |-> Len(data), content_range |-> NoContentRange]

\* data[start : end + 1] for 0 <= start
PySlice(data, start, end) ==
    SubSeq(data, start + 1, IF end + 1 < Len(data) THEN end + 1 ELSE Len(data))

\* S3.get_object, after the store returned the object: the response's
\* status, body, Content-Length and Content-Range.
S3_get_object(data, range_header) ==
    IF range_header = NoRangeHeader THEN WholeObject(data)
    ELSE LET range_str == replace_bytes_unit(range_header)
         IN  IF \A i \in 1..Len(range_str) : range_str[i] # "-"
             THEN WholeObject(data)
             ELSE LET parts == split_dash(range_str)
                      s == IF parts.start_str = <<>>
                           THEN [ok |-> TRUE, value |-> 0]
                           ELSE int(parts.start_str)
                      e == IF parts.end_str = <<>>
                           THEN [ok |-> TRUE, value |-> Len(data) - 1]
                           ELSE int(parts.end_str)
                  IN  IF ~s.ok \/ ~e.ok THEN RangeNotSatisfiable
                      ELSE IF s.value > e.value \/ s.value >= Len(data)
                      THEN RangeNotSatisfiable
                      ELSE LET part == PySlice(data, s.value, e.value)
                           IN  [status_code |-> HTTP_206_PARTIAL_CONTENT,
                                body |-> part,
                                content_length |-> Len(part),
                                content_range |-> [start |-> s.value,
                                                   end |-> e.value,
                                                   size |-> Len(data)]]

RangeInit ==
    /\ NewKeysmith
    /\ NoListing
    /\ NoStore

\* GET /{bucket}/{key} with a Range header, on an object of the store.
RangeGetObject(data, range_header) ==
    /\ ret' = [op |-> "S3.get_object", data |-> data,
               range_header |-> range_header,
               value |-> S3_get_object(data, range_header)]
    /\ UNCHANGED <<kvars, lvars, store, buckets, files, now, put_ret, job>>

\* GET /{bucket}/{key} without a Range header.
RangeGetWhole(data) ==
    /\ ret' = [op |-> "S3.get_object", data |-> data,
               range_header |-> NoRangeHeader,
               value |-> S3_get_object(data, NoRangeHeader)]
    /\ UNCHANGED <<kvars, lvars, store, buckets, files, now, put_ret, job>>

\* One GET per behaviour.
RangeNext ==
    \/ /\ ret = NoRet
       /\ \E data \in RangeDatas :
              \E h \in RangeHeaders : RangeGetObject(data, h)
    \/ /\ ret = NoRet
       /\ \E data \in RangeDatas : RangeGetWhole(data)

SpecRange == RangeInit /\ [][RangeNext]_vars

\* The header is "bytes=a-b" for decimal numbers a and b.
IsBytesRange(h) ==
    /\ Len(h) >= 4
    /\ h[1] = "bytes="
    /\ \E i \in 3..(Len(h) - 1) :
           /\ h[i] = "-"
           /\ IsDigits(SubSeq(h, 2, i - 1))
           /\ IsDigits(SubSeq(h, i + 1, Len(h)))

\* a and b of the header "bytes=a-b".
FirstBytePos(h) == Decimal(split_dash(Tail(h)).start_str)

LastBytePos(h) == Decimal(split_dash(Tail(h)).end_str)

\* A GET with a Range header has been answered.
RangeAnswered == ret.op = "S3.get_object" /\ ret.range_header # NoRangeHeader

\* The header of the answered GET is bytes=a-b with 0 <= a <= b < n.
InsideObject ==
    /\ IsBytesRange(ret.range_header)
    /\ FirstBytePos(ret.range_header) <= LastBytePos(ret.range_header)
    /\ LastBytePos(ret.range_header) < Len(ret.data)

\* The answer is 206 with data[a..b], Content-Length b-a+1 and
\* Content-Range 'bytes a-b/n'.
PartialContent ==
    LET a == FirstBytePos(ret.range_header)
        b == LastBytePos(ret.range_header)
    IN  /\ ret.value.status_code = HTTP_206_PARTIAL_CONTENT
        /\ ret.value.body = SubSeq(ret.data, a + 1, b + 1)
        /\ ret.value.content_length = b - a + 1
        /\ ret.value.content_range
               = [start |-> a, end |-> b, size |-> Len(ret.data)]

\* C31. For an object of size n and a header Range: bytes=a-b with
\* 0 <= a <= b < n, get_object answers 206 with body data[a..b],
\* Content-Length b-a+1 and Content-Range 'bytes a-b/n'; every other Range
\* header is answered with 416, never with 200 or 206.
C31_RangeReads ==
    RangeAnswered =>
        IF InsideObject
        THEN PartialContent
        ELSE ret.value.status_code = HTTP_416_RANGE_NOT_SATISFIABLE

\* The first half of C31 alone: a range inside the object is answered with
\* 206, the bytes a..b, Content-Length b-a+1 and Content-Range a-b/n.
C31_SatisfiableRange == (RangeAnswered /\ InsideObject) => PartialContent

\* Range: bytes=0-3 on an object of 2 bytes is answered with 206.
C31_Witness ==
    /\ RangeAnswered
    /\ ret.range_header = <<"bytes=", "0", "-", "3">>
    /\ Len(ret.data) = 2
    /\ ret.value.status_code = HTTP_206_PARTIAL_CONTENT

\* ------------------------------------------------------------------------
\* The S3 facade's listing responses
\* ------------------------------------------------------------------------

\* S3._build_list_bucket_result: the keyword arguments given to
\* xml.ListBucketResult (the entries of contents are the objects' keys).
S3__build_list_bucket_result(bucket, objects_info, pfx, delim, n, next_marker) ==
    [name |-> bucket,
     prefix |-> IF Truthy(pfx) THEN pfx ELSE <<>>,
     max_keys |-> n,
     key_count |-> Len(objects_info.objects)
                       + Len(objects_info.common_prefixes),
     is_truncated |-> objects_info.is_truncated,
     delimiter |-> delim,
     next_marker |-> IF next_marker # <<>> THEN next_marker ELSE None,
     contents |-> objects_info.objects,
     common_prefixes |-> objects_info.common_prefixes]

\* S3.list_objects, after the store returned objects_info.
S3_list_objects(bucket, objects_info, pfx, delim, n) ==
    S3__build_list_bucket_result(bucket, objects_info, pfx, delim, n,
                                 objects_info.next_marker)

\* S3.list_objects_v2, after the store returned objects_info: next_marker
\* keeps its default "".
S3_list_objects_v2(bucket, objects_info, pfx, delim, n) ==
    S3__build_list_bucket_result(bucket, objects_info, pfx, delim, n, <<>>)

\* The facade's response to the listing made.
ListBucketResult ==
    IF call.op = "v2"
    THEN S3_list_objects_v2(<<98>>, result, prefix, delimiter, max_keys)
    ELSE S3_list_objects(<<98>>, result, prefix, delimiter, max_keys)

\* The next-continuation-token of a response, None when it carries none.
NextContinuationToken(response) ==
    IF "next_continuation_token" \in DOMAIN response
    THEN response.next_continuation_token
    ELSE None

\* The last entry of the page: its last content key, or its last common
\* prefix when it has no content key.
LastEmitted ==
    IF result.objects # <<>> THEN result.objects[Len(result.objects)]
    ELSE IF result.common_prefixes # <<>>
         THEN result.common_prefixes[Len(result.common_prefixes)]
         ELSE <<>>

\* A v2 listing has been answered by the facade.
AnsweredV2 == call.op = "v2" /\ ~result.raised /\ max_keys >= 1

\* C32. Whenever the v2 listing result has is_truncated == true, the
\* facade's response carries a next-continuation-token equal to the last
\* emitted key, and it carries none when the result is not truncated.
C32_TruncationSignal ==
    AnsweredV2 =>
        NextContinuationToken(ListBucketResult)
            = IF result.is_truncated THEN LastEmitted ELSE None

\* A truncated v2 page with a content key.
C32_Witness ==
    /\ AnsweredV2
    /\ result.is_truncated
    /\ result.objects # <<>>
    /\ ListBucketResult.is_truncated
    /\ ListBucketResult.next_marker = None

\* ------------------------------------------------------------------------
\* A v1 walk with a delimiter
\* ------------------------------------------------------------------------

\* The client picks the key set, the prefix, a non-empty delimiter and
\* max_keys >= 1.
DelimiterWalkStart ==
    /\ call.op = "none"
    /\ objects' \in KeySets
    /\ prefix' \in OptionalStrings
    /\ delimiter' \in Strings(MaxAffix) \ {<<>>}
    /\ max_keys' \in 1..MaxPage
    /\ encoding_type' = None
    /\ call' = [NoCall EXCEPT !.op = "walk"]
    /\ UNCHANGED <<kvars, svars, result, pages>>

\* The entries of a page: its common prefixes and its content keys.
Entries(r) == r.common_prefixes \o r.objects

\* The next page of the walk: the first without marker, the others with the
\* next_marker of the page before.
NextDelimiterPage ==
    /\ call.op \in {"walk", "v1"}
    /\ ~WalkDone
    /\ Len(pages) < MaxWalk
    /\ \E marker \in {IF call.op = "walk" THEN None ELSE result.next_marker} :
          /\ call' = [NoCall EXCEPT !.op = "v1", !.marker = marker]
          /\ result' = filter_objects(objects, prefix, delimiter, max_keys,
                                      marker, encoding_type)
    /\ pages' = Append(pages, Entries(result'))
    /\ UNCHANGED <<kvars, svars, objects, prefix, delimiter, max_keys,
                   encoding_type>>

DelimiterWalkNext == DelimiterWalkStart \/ NextDelimiterPage

SpecDelimiterWalk ==
    Init /\ [][DelimiterWalkNext]_vars /\ WF_vars(NextDelimiterPage)

\* Every entry of the page just returned is strictly greater than the
\* marker it was requested with.
AboveMarker ==
    (call.op = "v1" /\ Truthy(call.marker)) =>
        \A i \in 1..Len(Entries(result)) :
            StrLess(call.marker, Entries(result)[i])

\* No entry is on two pages of the walk.
NoEntryTwice ==
    \A i \in 1..Len(pages), j \in 1..Len(pages) :
        i # j => \A a \in 1..Len(pages[i]), b \in 1..Len(pages[j]) :
                     pages[i][a] # pages[j][b]

\* C33. With a delimiter: every entry (content key or common prefix) of the
\* page requested with marker m is strictly greater than m, no entry is
\* returned on two pages of a walk that follows next_marker, and the walk
\* reaches is_truncated == false after finitely many pages.
C33_DelimiterWalk ==
    /\ [](AboveMarker /\ NoEntryTwice)
    /\ (call.op = "walk") ~> WalkDone

\* The second page of a walk returns the common prefix that the first page
\* returned and that was its next_marker.
C33_Witness ==
    /\ Len(pages) = 2
    /\ call.op = "v1"
    /\ result.common_prefixes # <<>>
    /\ call.marker = result.common_prefixes[1]
    /\ pages[1] = pages[2]
    /\ result.is_truncated

\* ------------------------------------------------------------------------
\* Keysmith: the reset of the key -> mutex mapping
\* ------------------------------------------------------------------------

\* The step replaces the mapping: _clear dropped a non-empty dict, or a key
\* of the dict has lost its mutex.
ReplacesMapping ==
    \/ last' = "reset"
    \/ \E k \in DOMAIN locks : k \notin DOMAIN locks' \/ locks'[k] # locks[k]

\* No task holds or waits for a per-key mutex.
NoMutexInUse == \A l \in LockIds : ~locked[l] /\ waiters[l] = <<>>

\* The mutex of the task's i-th call, an admitted lock(k).
MutexOf(c) == stack[c[1]][c[2]].lock

\* C34. The key -> mutex mapping is replaced only in states where no task
\* holds or waits for any per-key mutex (so a reset never discards a mutex
\* that is locked or has waiters), and two lock(k) calls whose admitted
\* lifetimes overlap contend on the same mutex object.
C34_ResetSafety ==
    /\ [][ReplacesMapping => NoMutexInUse /\ count_guards = 0]_vars
    /\ [](\A c \in AdmittedCalls, d \in AdmittedCalls :
              stack[c[1]][c[2]].key = stack[d[1]][d[2]].key
                  => /\ MutexOf(c) = MutexOf(d)
                     /\ MutexOf(c) \in LockIds
                     /\ locks[stack[c[1]][c[2]].key] = MutexOf(c))

\* lock_all() has just reset a non-empty mapping and entered its body,
\* after the last guard was released, while a lock(k) request waits at the
\* gate.
C34_Witness ==
    /\ last = "reset"
    /\ locks = EmptyDict
    /\ \E t \in Tasks, u \in Tasks :
          /\ InLockAll(t)
          /\ pc[u] = "gate"
          /\ stack[u][Depth(u)].key # ALL

\* ------------------------------------------------------------------------
\* Keysmith: lock_all() against a stream of lock(k) requests
\* ------------------------------------------------------------------------

\* Some lock_all() call holds the gate.
GateHeldByLockAll == \E t \in Tasks : HoldsGate(t)

\* C35. Once a lock_all() call holds the gate, count_guards can only
\* decrease; and (tasks that do not nest and are not cancelled, admitted
\* calls that release) the lock_all() call that waits for count_guards == 0
\* enters its body, whatever lock(k) requests keep arriving.
C35_LockAllNotStarved ==
    /\ [][GateHeldByLockAll => count_guards' <= count_guards]_vars
    /\ \A t \in Tasks : (pc[t] = "cv") ~> InLockAll(t)

\* The last guard has been released and has notified the lock_all() call,
\* which has not run yet, while the two other tasks (the one that released
\* and a third) wait at the gate with new lock(k) requests.
C35_Witness ==
    \E t \in Tasks :
        /\ pc[t] = "cv"
        /\ fut[t] = "done"
        /\ count_guards = 0
        /\ \A u \in Tasks \ {t} : pc[u] = "gate" /\ stack[u][1].key # ALL

\* ------------------------------------------------------------------------
\* _fetch_object_keys, one tree page at a time
\* ------------------------------------------------------------------------
\* The trees the remote can serve for the keys: the blobs cut into pages,
\* followed by no further page or by pages without blobs up to the number
\* of the last page the loop requests, or one more.
FetchLayouts(keys, n) ==
    UNION {{[total_pages |-> total, pages |-> blobs] :
               total \in {Len(blobs), MAX_PAGE - 1, MAX_PAGE}} :
           blobs \in TreeLayouts(keys, n)}

\* The bucket's files: some of two objects and the placeholder.
FetchTrees ==
    {[p \in {object_path(Caller, k) : k \in ks} |-> <<>>] :
        ks \in (SUBSET {<<97>>, <<97, 97>>, placeholder_name}) \ {{}}}

FetchInit ==
    /\ NewKeysmith
    /\ NoListing
    /\ store = "GitlabStore"
    /\ buckets = <<>>
    /\ files \in FetchTrees
    /\ now = 0
    /\ ret = NoRet
    /\ put_ret = [p \in {} |-> None]
    /\ job = [t \in Tasks |-> Idle]

\* The trees served to the tree request the caller waits for.
LongLayouts ==
    IF ~Fetching(Caller) THEN {}
    ELSE IF job[Caller].page > 1 THEN {job[Caller].layout}
    ELSE FetchLayouts(ListedKeys(Caller), PerPage(Caller))

\* One list_objects(bucket_name, max_keys=n) or delete_bucket(bucket_name)
\* is made, and the remote answers its requests.
FetchNext ==
    \/ /\ ret.op = "none"
       /\ \E n \in 1..MaxPage :
             CallListObjects(Caller, Caller, None, None, n, None)
    \/ /\ ret.op = "none"
       /\ CallDeleteBucket(Caller, Caller, FALSE)
    \/ \E layout \in LongLayouts : ServeTree(Caller, layout)
    \/ StartHead(Caller)
    \/ \E h \in InFlight(Caller) : ServeHead(Caller, h)
    \/ HeadDone(Caller)
    \/ GatherDone(Caller)

SpecFetch == FetchInit /\ [][FetchNext]_vars

\* The tree requests made, the number of pages reported and the keys read
\* once the request in flight has been answered in this step.
FetchedNow ==
    IF job'[Caller].op = "none" THEN ret'.fetch
    ELSE [tree_requests |-> job[Caller].page,
          total_pages |-> job'[Caller].layout.total_pages,
          keys |-> job'[Caller].keys]

\* The page answered in this step is the last one, or the probe over the
\* keys read with it reports is_truncated.
LastOrEnough ==
    \/ FetchedNow.tree_requests = FetchedNow.total_pages
    \/ is_enough(job[Caller].q, FetchedNow.keys)

\* C36. Key fetching requests tree pages 1, 2, 3, ... in order and stops
\* right after the first page whose number equals the total_pages reported
\* by the remote, or after which the probe over all keys fetched so far
\* reports is_truncated; it issues at most total_pages tree requests, and
\* delete_bucket reads every page.
C36_KeyFetching ==
    [][/\ (~Fetching(Caller) /\ Fetching(Caller)') =>
             job'[Caller].page = 1
       /\ Fetching(Caller) =>
             /\ FetchedNow.tree_requests = job[Caller].page
             /\ job[Caller].page <= FetchedNow.total_pages
             /\ LastOrEnough => ~Fetching(Caller)'
             /\ ~LastOrEnough =>
                   /\ Fetching(Caller)'
                   /\ job'[Caller].page = job[Caller].page + 1
             /\ (job[Caller].op = "delete_bucket" /\ ~Fetching(Caller)') =>
                   job[Caller].page = FetchedNow.total_pages]_vars

\* C36 for trees of fewer than MAX_PAGE pages.
C36_KeyFetchingBelowMaxPage ==
    [][/\ (~Fetching(Caller) /\ Fetching(Caller)') =>
             job'[Caller].page = 1
       /\ (Fetching(Caller) /\ FetchedNow.total_pages < MAX_PAGE) =>
             /\ FetchedNow.tree_requests = job[Caller].page
             /\ job[Caller].page <= FetchedNow.total_pages
             /\ LastOrEnough => ~Fetching(Caller)'
             /\ ~LastOrEnough =>
                   /\ Fetching(Caller)'
                   /\ job'[Caller].page = job[Caller].page + 1
             /\ (job[Caller].op = "delete_bucket" /\ ~Fetching(Caller)') =>
                   job[Caller].page = FetchedNow.total_pages]_vars

\* delete_bucket has returned from a tree of MAX_PAGE pages after
\* MAX_PAGE - 1 requests.
C36_Witness ==
    /\ ret.op = "delete_bucket"
    /\ ret.fetch.total_pages = MAX_PAGE
    /\ ret.fetch.tree_requests = MAX_PAGE - 1

\* ------------------------------------------------------------------------
\* _collect_objects: the HEAD fan-out, one answer at a time
\* ------------------------------------------------------------------------
\* The most content keys of a bucket whose listing is followed HEAD by HEAD.
MaxHeadKeys == 22

\* The keys "a0", "a1", ...: n keys without "/".
PlainKeys(n) == {<<97, 47 + i>> : i \in 1..n}

\* A key below "b/", and a key that quote() changes.
NestedKey == <<98, Slash, 97>>

BraceKey == <<97, 123>>

\* The bucket's files: 1..MaxHeadKeys plain keys and any of the nested key,
\* the brace key and the placeholder.
HeadTrees ==
    {[p \in {object_path(Caller, k) : k \in PlainKeys(n) \cup more} |-> <<>>] :
        n \in 1..MaxHeadKeys,
        more \in SUBSET {NestedKey, BraceKey, placeholder_name}}

\* The tree as the remote pages it: n entries a page.
HeadLayout(keys, n) ==
    [total_pages |-> (Len(keys) + n - 1) \div n,
     pages |-> [i \in 1..((Len(keys) + n - 1) \div n) |->
                   SubSeq(keys, (i - 1) * n + 1,
                          IF i * n < Len(keys) THEN i * n ELSE Len(keys))]]

HeadsInit ==
    /\ NewKeysmith
    /\ NoListing
    /\ store = "GitlabStore"
    /\ buckets = <<>>
    /\ files \in HeadTrees
    /\ now = 0
    /\ ret = NoRet
    /\ put_ret = [p \in {} |-> None]
    /\ job = [t \in Tasks |-> Idle]

\* The tree served to the tree request the caller waits for.
FullPages ==
    IF ~Fetching(Caller) THEN {}
    ELSE {HeadLayout(ListedKeys(Caller), PerPage(Caller))}

\* The HEADs the remote answers next: the oldest and the newest of those in
\* flight.
OldestAndNewest ==
    {h \in InFlight(Caller) :
        \/ \A k \in InFlight(Caller) : k[1] = h[1] => h[2] <= k[2]
        \/ \A k \in InFlight(Caller) : k[1] = h[1] => h[2] >= k[2]}

\* The done callbacks of head_object tasks that are queued.
Queued(t) == IF job[t].op \in Listings THEN Len(job[t].ended) ELSE 0

\* One listing is made, v1 or v2, with or without a delimiter, v2 with or
\* without url encoding, and the remote answers its requests.
HeadsNext ==
    \/ /\ ret.op = "none"
       /\ \E d \in {None, <<Slash>>}, n \in {2, BATCH_SIZE + 1, MAX_KEYS} :
             CallListObjects(Caller, Caller, None, d, n, None)
    \/ /\ ret.op = "none"
       /\ \E d \in {None, <<Slash>>}, n \in {2, BATCH_SIZE + 1, MAX_KEYS},
             enc \in {None, url} :
             CallListObjectsV2(Caller, Caller, None, d, enc, n, None, None)
    \/ \E layout \in FullPages : ServeTree(Caller, layout)
    \/ StartHead(Caller)
    \/ /\ Queued(Caller) <= 1
       /\ \E h \in OldestAndNewest : ServeHead(Caller, h)
    \/ HeadDone(Caller)
    \/ GatherDone(Caller)

SpecHeads == HeadsInit /\ [][HeadsNext]_vars

\* The listing has returned a page.
PageReturned == ret.op \in Listings /\ ret.value.raised = "none"

\* C37. Exactly one HEAD is issued per content key of the returned page
\* (none for keys rolled into common prefixes, cut by truncation, or the
\* placeholder), at most 20 HEAD requests are in flight at any time, a
\* batch starts only after every HEAD of the previous batch has returned,
\* and the returned objects keep the order of the filtered keys.
C37_HeadFanOut ==
    /\ [](/\ Cardinality(InFlight(Caller)) <= 20
          /\ PageReturned =>
                /\ ret.head_keys = ret.page_keys
                /\ ret.head_keys = [i \in 1..Len(ret.value.objects) |->
                                       ret.value.objects[i].key]
                /\ \A i \in 1..Len(ret.head_keys),
                      k \in 1..Len(ret.head_keys) :
                       i # k => ret.head_keys[i] # ret.head_keys[k]
                /\ Len(ret.head_keys) + Len(ret.value.common_prefixes)
                       <= ret.max_keys
                /\ \A i \in 1..Len(ret.head_keys) :
                      /\ ret.head_keys[i] # placeholder_name
                      /\ ret.head_keys[i] # NestedKey
                             \/ ret.delimiter = None)
    /\ [][\A h \in InFlight(Caller)' \ InFlight(Caller) :
              h[1] = "call" =>
                 /\ \A k \in InFlight(Caller) :
                       /\ k[1] = "call"
                       /\ (k[2] - 1) \div BATCH_SIZE
                              = (h[2] - 1) \div BATCH_SIZE
                 /\ \A i \in 1..(((h[2] - 1) \div BATCH_SIZE) * BATCH_SIZE) :
                       i \in DOMAIN job[Caller].objects]_vars

\* The 20 HEADs of the first batch have been answered and the HEAD of the
\* 21st content key is in flight, alone.
C37_Witness ==
    /\ job[Caller].op \in Listings
    /\ job[Caller].at = "heads"
    /\ Len(job[Caller].heads) = BATCH_SIZE + 1
    /\ job[Caller].pending = {BATCH_SIZE + 1}
    /\ DOMAIN job[Caller].objects = 1..BATCH_SIZE

\* ------------------------------------------------------------------------
\* GitlabStore: no call of the Keysmith under a guard
\* ------------------------------------------------------------------------
\* Task t is in a store operation.
InOperation(t) == job[t].op # "none"

\* Task t holds a guard of the Keysmith or waits for one.
InKeysmith(t) == stack[t] # <<>>

\* C38. No store operation requests Keysmith.lock (or lock_all) while it
\* already holds a Keysmith guard: a task is in at most one Keysmith call at
\* a time, also during the HEAD fan-out of a listing and the per-file
\* deletions of delete_bucket; so every operation completes and releases
\* its guard provided the remote calls return.
C38_NoSelfDeadlock ==
    /\ [](\A t \in Tasks :
             /\ Len(stack[t]) <= 1
             /\ ~InOperation(t) => ~InKeysmith(t))
    /\ []((\A t \in Tasks : ~InOperation(t)) => Quiet)
    /\ \A t \in Callers : InOperation(t) ~> ~InOperation(t)

\* A listing awaits its HEADs under the bucket's guard while a delete_bucket
\* of the same bucket waits for the guard.
C38_Witness ==
    \E t1, t2 \in Tasks :
        /\ job[t1].op \in Listings
        /\ job[t1].at = "heads"
        /\ pc[t1] = "run"
        /\ Len(stack[t1]) = 1
        /\ job[t2].op = "delete_bucket"
        /\ job[t2].bucket_name = job[t1].bucket_name
        /\ job[t2].at = "lock"
        /\ pc[t2] = "guard"

====
